---------------------------- MODULE Spec2Model ----------------------------
(***************************************************************************)
(* Nova: the local media catalog (services/local/database.rs), the two     *)
(* metadata extractors that produce Track values (services/local/          *)
(* scanner.rs and services/local/mod.rs) and the operations on the catalog.*)
(*                                                                         *)
(* Strings are sequences of one-character strings, so that concatenation,  *)
(* case folding and SQL LIKE are computed, not assumed.                    *)
(***************************************************************************)
EXTENDS Integers, Sequences, FiniteSets, TLC

(***************************************************************************)
(* Bounds of the model.                                                    *)
(***************************************************************************)
\* number of catalog operations in one behaviour of Spec
MaxOps == 3
\* number of tracks in one batch_insert_tracks call
MaxBatch == 2

(***************************************************************************)
(* Strings.                                                                *)
(***************************************************************************)
UpperChars == <<"A","B","C","D","E","F","G","H","I","J","K","L","M",
                "N","O","P","Q","R","S","T","U","V","W","X","Y","Z">>
LowerChars == <<"a","b","c","d","e","f","g","h","i","j","k","l","m",
                "n","o","p","q","r","s","t","u","v","w","x","y","z">>

\* ASCII case folding of one character (SQLite's LIKE folds ASCII only)
LowerChar(c) ==
  IF \E i \in 1..26 : UpperChars[i] = c
  THEN LowerChars[CHOOSE i \in 1..26 : UpperChars[i] = c]
  ELSE c

UnknownArtist == <<"U","n","k","n","o","w","n"," ","A","r","t","i","s","t">>
UnknownAlbum == <<"U","n","k","n","o","w","n"," ","A","l","b","u","m">>

ArtistX == <<"X">>
ArtistBX == <<"b",":","X">>
AlbumLP == <<"L","P">>
AlbumLPb == <<"L","P",":","b">>
TitleSong == <<"S","o">>

PathA == <<"/","a",".","m","p","3">>
PathB == <<"/","b",".","m","p","3">>
Paths == {PathA, PathB}

\* Option<u32>: <<>> is None, <<y>> is Some(y)
NoYear == <<>>

\* format!("{:x}", Sha1(s)): a 40-digit hex string; modelled as an injective
\* tagging of its input, which no path, title or name equals
Sha1Hex(s) == <<"sha1#">> \o s

\* a path component that is not valid UTF-8
BadByte == "\\xff"
PathRaw == <<"/", BadByte, ".", "m", "p", "3">>

\* Path::to_str().unwrap_or_default(): the path text, or "" when the path is
\* not valid UTF-8
PathToStr(p) == IF \E i \in 1..Len(p) : p[i] = BadByte THEN <<>> ELSE p

\* position of the last occurrence of c in s, 0 if there is none
LastIndexOf(s, c) ==
  IF \E i \in 1..Len(s) : s[i] = c
  THEN CHOOSE i \in 1..Len(s) : s[i] = c /\ \A j \in (i+1)..Len(s) : s[j] # c
  ELSE 0

\* Path::file_name(): the text after the last separator
FileName(p) == SubSeq(p, LastIndexOf(p, "/") + 1, Len(p))

\* Path::file_stem(): the file name up to its last dot (a leading dot is kept)
FileStem(p) ==
  LET n == FileName(p)
      d == LastIndexOf(n, ".")
  IN IF d <= 1 THEN n ELSE SubSeq(n, 1, d - 1)

(***************************************************************************)
(* Tags of a media file, as the probe reports them.  An absent tag is <<>>,*)
(* a present one <<value>>.                                                *)
(***************************************************************************)
Tag(title, artist, album, date) ==
  [title |-> title, artist |-> artist, album |-> album, date |-> date]

TagSets ==
  { Tag(<<TitleSong>>, <<ArtistX>>, <<AlbumLP>>, <<1999>>),
    Tag(<<>>, <<ArtistX>>, <<AlbumLP>>, <<>>),
    Tag(<<>>, <<ArtistX>>, <<AlbumLPb>>, <<>>),
    Tag(<<>>, <<ArtistBX>>, <<AlbumLP>>, <<>>),
    Tag(<<>>, <<>>, <<AlbumLP>>, <<>>),
    Tag(<<>>, <<ArtistX>>, <<>>, <<>>),
    Tag(<<>>, <<>>, <<>>, <<>>) }

\* the tags of the files read by get_tracks
ScanTagSets ==
  { Tag(<<>>, <<ArtistX>>, <<AlbumLP>>, <<>>),
    Tag(<<>>, <<>>, <<>>, <<>>) }

OrElse(opt, default) == IF opt = <<>> THEN default ELSE opt[1]

Track(id, title, artist, album, year, path) ==
  [id |-> id, title |-> title, artist |-> artist, album |-> album,
   release_year |-> year, path |-> path]

\* FileScanner::process_file: the id is the SHA-1 of the path text
ProcessFile(path, tag) ==
  Track(Sha1Hex(PathToStr(path)),
        OrElse(tag.title, FileStem(path)),
        OrElse(tag.artist, UnknownArtist),
        OrElse(tag.album, UnknownAlbum),
        tag.date,
        path)

\* the default title of get_tracks: name[..name.rfind('.')], the whole name
\* when it has no dot
DefaultTitle(p) ==
  LET n == FileName(p)
      d == LastIndexOf(n, ".")
  IN IF d = 0 THEN n ELSE SubSeq(n, 1, d - 1)

\* LocalMusicProvider::get_tracks: the id is the path text itself and the
\* release year is never read
GetTracksTrack(path, tag) ==
  Track(PathToStr(path),
        OrElse(tag.title, DefaultTitle(path)),
        OrElse(tag.artist, UnknownArtist),
        OrElse(tag.album, UnknownAlbum),
        NoYear,
        path)

(***************************************************************************)
(* The catalog: three tables.  A table is the set of its rows.             *)
(***************************************************************************)
EmptyDb == [tracks |-> {}, albums |-> {}, artists |-> {}]

\* the row insert_track and batch_insert_tracks write for a track
TrackRow(t) ==
  [id |-> t.id, title |-> t.title, artist |-> t.artist, album |-> t.album,
   release_year |-> t.release_year, file_path |-> PathToStr(t.path)]

\* ensure_artist: the id of an artist row
ArtistId(artist) == Sha1Hex(artist)

\* ensure_album: the id of an album row, the hash of "title:artist"
AlbumId(title, artist) == Sha1Hex(title \o <<":">> \o artist)

\* INSERT OR IGNORE INTO artists: ignored when the primary key (id) or the
\* UNIQUE column (name) is already taken
InsertOrIgnoreArtist(d, artist) ==
  IF \E r \in d.artists : r.id = ArtistId(artist) \/ r.name = artist
  THEN d
  ELSE [d EXCEPT !.artists = @ \cup {[id |-> ArtistId(artist), name |-> artist]}]

\* an INSERT OR REPLACE in place of the INSERT OR IGNORE of ensure_album
InsertOrReplaceAlbum(d, title, artist, year) ==
  [d EXCEPT !.albums =
     {r \in @ : ~(r.id = AlbumId(title, artist)
                   \/ (r.title = title /\ r.artist = artist))}
       \cup {[id |-> AlbumId(title, artist), title |-> title,
               artist |-> artist, year |-> year]}]

\* INSERT OR IGNORE INTO albums: ignored when the primary key (id) or the
\* UNIQUE pair (title, artist) is already taken
InsertOrIgnoreAlbum(d, title, artist, year) ==
  IF \E r \in d.albums :
       r.id = AlbumId(title, artist) \/ (r.title = title /\ r.artist = artist)
  THEN d
  ELSE [d EXCEPT !.albums = @ \cup
          {[id |-> AlbumId(title, artist), title |-> title, artist |-> artist,
            year |-> year]}]

\* a REPLACE that deletes the conflicting row and then skips the insert
InsertOrReplaceTrack_DropOnConflict(d, t) ==
  IF \E r \in d.tracks : r.id = t.id
  THEN [d EXCEPT !.tracks = {r \in @ : r.id # t.id}]
  ELSE [d EXCEPT !.tracks = @ \cup {TrackRow(t)}]

\* INSERT OR REPLACE INTO tracks: the row with the same primary key is replaced
InsertOrReplaceTrack(d, t) ==
  [d EXCEPT !.tracks = {r \in @ : r.id # t.id} \cup {TrackRow(t)}]

\* the (artist, album) pairs SELECT artist, album FROM tracks WHERE
\* file_path = ? may return as its first row; <<>> when no row matches
TrackInfos(d, path) ==
  LET rows == {r \in d.tracks : r.file_path = PathToStr(path)}
  IN IF rows = {} THEN { <<>> }
     ELSE { <<[artist |-> r.artist, album |-> r.album]>> : r \in rows }

\* a removal whose orphan clean-up is not tied to the row that was found: it
\* drops every album and artist row that no track row refers to
DeleteTrackAndAllOrphans(d, path, info) ==
  LET d1 == [d EXCEPT !.tracks = {r \in @ : r.file_path # PathToStr(path)}]
  IN [d1 EXCEPT
        !.albums = {a \in @ : \E r \in d1.tracks :
                                r.album = a.title /\ r.artist = a.artist},
        !.artists = {a \in @ : \E r \in d1.tracks : r.artist = a.name}]

\* the statements of remove_track_by_path after its SELECT returned info
DeleteTrackAndOrphans(d, path, info) ==
  LET d1 == [d EXCEPT !.tracks = {r \in @ : r.file_path # PathToStr(path)}]
  IN IF info = <<>> THEN d1
     ELSE
       LET artist == info[1].artist
           album == info[1].album
           album_track_count ==
             Cardinality({r \in d1.tracks : r.album = album /\ r.artist = artist})
           d2 == IF album_track_count = 0
                 THEN [d1 EXCEPT !.albums =
                         {a \in @ : ~(a.title = album /\ a.artist = artist)}]
                 ELSE d1
           artist_track_count ==
             Cardinality({r \in d2.tracks : r.artist = artist})
       IN IF artist_track_count = 0
          THEN [d2 EXCEPT !.artists = {a \in @ : a.name # artist}]
          ELSE d2

(***************************************************************************)
(* Connections and shared-cache locks.  Every pooled connection opens the  *)
(* same in-memory database with SQLITE_OPEN_SHARED_CACHE: at most one      *)
(* connection has a write transaction, a table written in it is locked for *)
(* the other connections until it ends, and a conflicting statement fails  *)
(* at once with SQLITE_LOCKED (the busy timeout does not apply).           *)
(***************************************************************************)
NoConn == <<0, 0>>
Conn(p, n) == <<p, n>>

\* wowner: the connection in a write transaction; wtables: the tables it has
\* written; undo: the tables as they were when it started; rlocks: the
\* (connection, table) read locks of open transactions
NoLocks == [wowner |-> NoConn, wtables |-> {}, undo |-> EmptyDb, rlocks |-> {}]

CanWrite(lk, c, table) ==
  /\ lk.wowner \in {NoConn, c}
  /\ \A rl \in lk.rlocks : rl[2] = table => rl[1] = c

CanRead(lk, c, tables) ==
  \/ lk.wowner \in {NoConn, c}
  \/ lk.wtables \cap tables = {}

\* a write statement of connection c on a table, applied to the tables d
AcquireWrite(lk, c, table, d) ==
  [lk EXCEPT !.wowner = c,
             !.wtables = @ \cup {table},
             !.undo = IF lk.wowner = c THEN @ ELSE d]

\* PRAGMA journal_mode = OFF: ROLLBACK is undefined; it either restores the
\* tables or leaves the transaction's writes in place
RollbackOutcomes == {"restored", "kept"}

Rollback(lk, c, d, outcome) ==
  IF lk.wowner = c /\ outcome = "restored" THEN lk.undo ELSE d

\* the locks once connection c committed or rolled back
Release(lk, c) ==
  [wowner |-> IF lk.wowner = c THEN NoConn ELSE lk.wowner,
   wtables |-> IF lk.wowner = c THEN {} ELSE lk.wtables,
   undo |-> IF lk.wowner = c THEN EmptyDb ELSE lk.undo,
   rlocks |-> {rl \in lk.rlocks : rl[1] # c}]

(***************************************************************************)
(* The store operations, run alone.                                        *)
(***************************************************************************)
\* Database::insert_track: ensure_artist, ensure_album and the INSERT OR
\* REPLACE, three transactions one after the other
InsertTrack(d, t) ==
  InsertOrReplaceTrack(
    InsertOrIgnoreAlbum(InsertOrIgnoreArtist(d, t.artist),
                        t.album, t.artist, t.release_year),
    t)

\* Database::remove_track_by_path, info being the row its SELECT returned
RemoveTrackByPath(d, path, info) == DeleteTrackAndOrphans(d, path, info)

\* Database::batch_insert_tracks from its i-th track on: the outer
\* transaction is on connection 1, ensure_artist and ensure_album each take
\* connection 2 for a transaction of their own
RECURSIVE BatchLoop(_, _, _, _, _)
BatchLoop(d, lk, ts, i, outcome) ==
  IF i > Len(ts)
  THEN [db |-> d, ok |-> TRUE, failed_at |-> 0]
  ELSE
    IF ~CanWrite(lk, Conn(1, 2), "artists") \/ ~CanWrite(lk, Conn(1, 2), "albums")
    THEN [db |-> Rollback(lk, Conn(1, 1), d, outcome), ok |-> FALSE,
          failed_at |-> i]
    ELSE
      LET d1 == InsertOrIgnoreArtist(d, ts[i].artist)
          d2 == InsertOrIgnoreAlbum(d1, ts[i].album, ts[i].artist,
                                    ts[i].release_year)
          lk1 == AcquireWrite(lk, Conn(1, 1), "tracks", d2)
      IN BatchLoop(InsertOrReplaceTrack(d2, ts[i]), lk1, ts, i + 1, outcome)

BatchInsertTracks(d, ts, outcome) == BatchLoop(d, NoLocks, ts, 1, outcome)

\* the tables the remove_track_by_path calls of cleanup_database may leave,
\* one call per stored path whose file is missing, in any row order
RECURSIVE RemoveMissing(_, _)
RemoveMissing(d, missing) ==
  IF missing = {} THEN {d}
  ELSE UNION {UNION {RemoveMissing(RemoveTrackByPath(d, p, info), missing \ {p}) :
                       info \in TrackInfos(d, p)} : p \in missing}

\* Database::cleanup_database with the files of `exists` on disk: its own
\* transaction (connection 1) reads every file_path and stays open, so it
\* holds the read lock on tracks while remove_track_by_path runs on a second
\* pooled connection; a failed removal is returned with `?`
CleanupDatabase(d, exists) ==
  LET lk == [NoLocks EXCEPT !.rlocks = {<<Conn(1, 1), "tracks">>}]
      missing == {r.file_path : r \in d.tracks} \ {PathToStr(p) : p \in exists}
  IN IF missing = {} THEN {[db |-> d, ok |-> TRUE]}
     ELSE IF CanWrite(lk, Conn(1, 2), "tracks")
          THEN {[db |-> e, ok |-> TRUE] : e \in RemoveMissing(d, missing)}
          ELSE {[db |-> d, ok |-> FALSE]}

(***************************************************************************)
(* Reads.                                                                  *)
(***************************************************************************)
\* get_all_tracks: SELECT ... FROM tracks
GetAllTracks(d) == d.tracks

\* get_all_artists without its WHERE clause
GetAllArtists_NoFilter(d) == d.artists

\* get_all_artists: ... FROM artists a ... WHERE a.name != 'Unknown Artist'
GetAllArtists(d) == {a \in d.artists : a.name # UnknownArtist}

\* get_all_albums: ... FROM albums a WHERE a.title != 'Unknown Album'
GetAllAlbums(d) == {a \in d.albums : a.title # UnknownAlbum}

\* SQL LIKE: % matches any text, _ any one character, any other character
\* itself, ASCII letters without regard to case
RECURSIVE Like(_, _)
Like(s, pat) ==
  IF pat = <<>> THEN s = <<>>
  ELSE IF Head(pat) = "%"
       THEN \E k \in 0..Len(s) : Like(SubSeq(s, k + 1, Len(s)), Tail(pat))
       ELSE /\ s # <<>>
            /\ \/ Head(pat) = "_"
               \/ LowerChar(Head(pat)) = LowerChar(Head(s))
            /\ Like(Tail(s), Tail(pat))

\* format!("%{}%", query)
SearchPattern(query) == <<"%">> \o query \o <<"%">>

\* the orders in which a statement without ORDER BY may return a set of rows
Orders(rows) ==
  {o \in [1..Cardinality(rows) -> rows] :
     \A i, j \in 1..Cardinality(rows) : i # j => o[i] # o[j]}

\* LIMIT limit OFFSET offset on a sequence of rows
LimitOffset(rows, limit, offset) ==
  SubSeq(rows, offset + 1,
         IF offset + limit < Len(rows) THEN offset + limit ELSE Len(rows))

\* search_artists: the rows WHERE a.name LIKE ?1 AND a.name != 'Unknown Artist'
SearchArtistsRows(d, query) ==
  {a \in d.artists : Like(a.name, SearchPattern(query)) /\ a.name # UnknownArtist}

\* search_artists: the results it may return
SearchArtists(d, query, limit, offset) ==
  {LimitOffset(o, limit, offset) : o \in Orders(SearchArtistsRows(d, query))}

\* search_albums: the rows WHERE (a.title LIKE ?1 OR a.artist LIKE ?1)
\* AND a.title != 'Unknown Album'
SearchAlbumsRows(d, query) ==
  {a \in d.albums :
     /\ Like(a.title, SearchPattern(query)) \/ Like(a.artist, SearchPattern(query))
     /\ a.title # UnknownAlbum}

\* search_albums: the results it may return
SearchAlbums(d, query, limit, offset) ==
  {LimitOffset(o, limit, offset) : o \in Orders(SearchAlbumsRows(d, query))}

\* the queries, limits and offsets of the model
Queries == { <<>>, <<"x">>, <<"u", "n">>, <<"%">> }
Limits == {0, 1, 2}
Offsets == {0, 1}

(***************************************************************************)
(* The library provider: LocalMusicProvider scans the music directory on   *)
(* every query.  A sequence stands for a Vec; an operator whose result     *)
(* depends on an enumeration order (directory walk, HashMap) is the set of *)
(* the results it may return.                                              *)
(***************************************************************************)
\* the file at a path: <<>> when there is none, else <<its tags>>
NoFile == <<>>

\* str::to_lowercase
Lower(s) == [i \in 1..Len(s) |-> LowerChar(s[i])]

\* str::contains
Contains(s, sub) ==
  \E i \in 0..(Len(s) - Len(sub)) : SubSeq(s, i + 1, i + Len(sub)) = sub

RECURSIVE IsSubsequence(_, _)
IsSubsequence(pat, s) ==
  IF pat = <<>> THEN TRUE
  ELSE IF s = <<>> THEN FALSE
  ELSE IF Head(pat) = Head(s) THEN IsSubsequence(Tail(pat), Tail(s))
  ELSE IsSubsequence(pat, Tail(s))

\* SkimMatcherV2::default().ignore_case().fuzzy_match(choice, pattern):
\* Some(0) for the empty pattern, None unless the pattern's characters occur
\* in order in the choice (case ignored), else Some(score); the score is
\* taken as the matcher's 16 per matched character, its bonus and gap terms
\* left out
FuzzyMatch(choice, pattern) ==
  IF pattern = <<>> THEN <<0>>
  ELSE IF IsSubsequence(Lower(pattern), Lower(choice))
       THEN <<16 * Len(pattern)>>
       ELSE <<>>

\* `if let Some(s) = matcher.fuzzy_match(..) { score += s * w }`
FuzzyTerm(choice, pattern, w) ==
  IF FuzzyMatch(choice, pattern) = <<>> THEN 0
  ELSE FuzzyMatch(choice, pattern)[1] * w

\* LocalMusicProvider::score_artist_match
ScoreArtistMatch(artist_name, query) ==
  LET q == Lower(query)
  IN (IF Lower(artist_name) = q THEN 1000 ELSE 0)
       + FuzzyTerm(artist_name, q, 3)
       + (IF Contains(Lower(artist_name), q) THEN 500 ELSE 0)

\* LocalMusicProvider::score_album_match
ScoreAlbumMatch(album, artist, query) ==
  LET q == Lower(query)
  IN (IF Lower(album) = q THEN 1000 ELSE 0)
       + (IF Lower(artist) = q THEN 500 ELSE 0)
       + FuzzyTerm(album, q, 3)
       + FuzzyTerm(artist, q, 2)
       + (IF Contains(Lower(album), q) THEN 300 ELSE 0)
       + (IF Contains(Lower(artist), q) THEN 200 ELSE 0)

\* str::split_whitespace from position i on, cur being the word read so far
RECURSIVE SplitFrom(_, _, _)
SplitFrom(s, i, cur) ==
  IF i > Len(s) THEN (IF cur = <<>> THEN <<>> ELSE <<cur>>)
  ELSE IF s[i] = " "
       THEN (IF cur = <<>> THEN <<>> ELSE <<cur>>) \o SplitFrom(s, i + 1, <<>>)
       ELSE SplitFrom(s, i + 1, Append(cur, s[i]))

SplitWhitespace(s) == SplitFrom(s, 1, <<>>)

\* the word matches one of the track's fields
WordMatches(track, word) ==
  \/ Contains(Lower(track.title), word)
  \/ Contains(Lower(track.artist), word)
  \/ Contains(Lower(track.album), word)

\* search_tracks: what one query word adds to a track's score
WordScore(track, word) ==
  FuzzyTerm(track.title, word, 3)
    + (IF Contains(Lower(track.title), word) THEN 500 ELSE 0)
    + FuzzyTerm(track.artist, word, 2)
    + (IF Contains(Lower(track.artist), word) THEN 300 ELSE 0)
    + FuzzyTerm(track.album, word, 1)
    + (IF Contains(Lower(track.album), word) THEN 200 ELSE 0)

RECURSIVE SumWordScores(_, _)
SumWordScores(track, words) ==
  IF words = <<>> THEN 0
  ELSE WordScore(track, Head(words)) + SumWordScores(track, Tail(words))

\* search_tracks: query_words.iter().filter(..).count()
MatchedWords(track, words) ==
  Cardinality({i \in 1..Len(words) : WordMatches(track, words[i])})

\* search_tracks: the score of a track
ScoreTrack(track, query) ==
  LET words == SplitWhitespace(Lower(query))
  IN SumWordScores(track, words) + MatchedWords(track, words) * 1000

\* a filter that keeps every track, the ones without a match ranked last
TrackIncluded_All(track, query) == TRUE

\* search_tracks: the filter_map keeps the track
TrackIncluded(track, query) ==
  \/ ScoreTrack(track, query) > 0
  \/ MatchedWords(track, SplitWhitespace(Lower(query))) > 0

\* the orders in which the elements of a set may be enumerated
Perms(S) ==
  {f \in [1..Cardinality(S) -> S] :
     \A i, j \in 1..Cardinality(S) : i # j => f[i] # f[j]}

\* slice::sort_by on the score, highest first; the sort is stable
InsertByScore(sorted, x) ==
  LET k == Cardinality({i \in 1..Len(sorted) : sorted[i].score >= x.score})
  IN SubSeq(sorted, 1, k) \o <<x>> \o SubSeq(sorted, k + 1, Len(sorted))

RECURSIVE SortByScore(_)
SortByScore(s) ==
  IF s = <<>> THEN <<>>
  ELSE InsertByScore(SortByScore(SubSeq(s, 1, Len(s) - 1)), s[Len(s)])

\* .into_iter().skip(offset).take(limit)
SkipTake(s, offset, limit) ==
  SubSeq(s, offset + 1, IF offset + limit < Len(s) THEN offset + limit ELSE Len(s))

\* .map(|(_, item)| item)
Items(scored) == [i \in 1..Len(scored) |-> scored[i].item]

\* what is at a path of the music directory: nothing (NoFile), <<tags>> for
\* a media file, <<Failing(step)>> for a file that get_tracks cannot stat,
\* open or probe, <<Dir(readable)>> for a directory
Failing(step) == [fails |-> step]
Dir(readable) == [dir |-> readable]

IsDir(v) == v # NoFile /\ "dir" \in DOMAIN v[1]
IsFile(v) == v # NoFile /\ ~IsDir(v)

\* the probe of get_tracks succeeds: a directory can be opened, not read
Probes(v) == v # NoFile /\ "title" \in DOMAIN v[1]

\* Path::extension: the part of the file name after its last dot, <<>> for
\* None (no dot, or only a leading one)
Extension(p) ==
  LET n == FileName(p)
      d == LastIndexOf(n, ".")
  IN IF d <= 1 THEN <<>> ELSE <<SubSeq(n, d + 1, Len(n))>>

MusicExtensions ==
  { <<"m","p","3">>, <<"f","l","a","c">>, <<"m","4","a">>, <<"o","g","g">>,
    <<"w","a","v">> }

\* FileScanner::is_music_file
IsMusicFile(p) ==
  /\ Extension(p) # <<>>
  /\ Lower(Extension(p)[1]) \in MusicExtensions

\* d is a directory above p
IsAncestor(d, p) ==
  /\ Len(d) + 1 < Len(p)
  /\ SubSeq(p, 1, Len(d) + 1) = d \o <<"/">>

\* WalkDir yields the entry: it exists and every directory above it can be
\* read; an unreadable directory is an Err that filter_map(Result::ok) drops
Walked(fs, p) ==
  /\ fs[p] # NoFile
  /\ \A d \in DOMAIN fs : IsAncestor(d, p) => fs[d] = <<Dir(TRUE)>>

\* a scan that returns the walked music files only, never a directory
ScanDirectory_FilesOnly(fs) ==
  Perms({p \in DOMAIN fs : Walked(fs, p) /\ IsMusicFile(p) /\ IsFile(fs[p])})

\* FileScanner::scan_directory: the walked entries that is_music_file
\* accepts, in the order in which par_bridge hands them over
ScanDirectory(fs) ==
  Perms({p \in DOMAIN fs : Walked(fs, p) /\ IsMusicFile(p)})

\* a get_tracks that stops at the first file it cannot read
GetTracks_StopAtFailure(fs) ==
  {LET bad == {i \in 1..Len(o) : ~Probes(fs[o[i]])}
       n == IF bad = {} THEN Len(o)
            ELSE (CHOOSE i \in bad : \A j \in bad : i <= j) - 1
   IN [i \in 1..n |-> GetTracksTrack(o[i], fs[o[i]][1])] :
     o \in ScanDirectory(fs)}

\* LocalMusicProvider::get_tracks: one track per file that can be stat'ed,
\* opened and probed, in scan order; the others are skipped
GetTracks(fs) ==
  {LET kept == SelectSeq(o, LAMBDA p : Probes(fs[p]))
   IN [i \in 1..Len(kept) |-> GetTracksTrack(kept[i], fs[kept[i]][1])] :
     o \in ScanDirectory(fs)}

\* the Artist get_artists and search_artists build for a track
ArtistOf(t) == [id |-> t.artist, name |-> t.artist]

\* the HashMap of get_artists and search_artists, keyed by the artist name
ArtistsMap(tracks) == {ArtistOf(tracks[i]) : i \in 1..Len(tracks)}

\* LocalMusicProvider::get_artists: artists.into_values().collect()
GetArtists(fs) == UNION {Perms(ArtistsMap(tracks)) : tracks \in GetTracks(fs)}

\* format!("{}-{}", track.album, track.artist)
AlbumKey(t) == t.album \o <<"-">> \o t.artist

\* the Album get_albums and search_albums build for a track
AlbumOf(t) ==
  [id |-> AlbumKey(t), title |-> t.album, artist |-> t.artist,
   year |-> t.release_year]

\* the HashMap of get_albums and search_albums: the first track of a key, in
\* scan order, makes its album
AlbumsMap(tracks) ==
  {AlbumOf(tracks[i]) :
     i \in {k \in 1..Len(tracks) :
              \A j \in 1..(k - 1) : AlbumKey(tracks[j]) # AlbumKey(tracks[k])}}

\* LocalMusicProvider::get_albums: albums.into_values().collect()
GetAlbums(fs) == UNION {Perms(AlbumsMap(tracks)) : tracks \in GetTracks(fs)}

\* a search that takes its page of the candidates before it sorts them
ProviderSearchTracks_PageFirst(fs, query, limit, offset) ==
  {LET kept == SelectSeq([i \in 1..Len(tracks) |->
                            [score |-> ScoreTrack(tracks[i], query),
                             item |-> tracks[i]]],
                         LAMBDA e : TrackIncluded(e.item, query))
   IN Items(SortByScore(SkipTake(kept, offset, limit))) :
     tracks \in GetTracks(fs)}

\* LocalMusicProvider::search_tracks
ProviderSearchTracks(fs, query, limit, offset) ==
  {LET kept == SelectSeq([i \in 1..Len(tracks) |->
                            [score |-> ScoreTrack(tracks[i], query),
                             item |-> tracks[i]]],
                         LAMBDA e : TrackIncluded(e.item, query))
   IN SkipTake(Items(SortByScore(kept)), offset, limit) :
     tracks \in GetTracks(fs)}

\* LocalMusicProvider::search_albums: every album of the map is scored, the
\* ones with a positive score are sorted and paged
ProviderSearchAlbums(fs, query, limit, offset) ==
  UNION {
    {SkipTake(Items(SortByScore(o)), offset, limit) :
       o \in Perms({e \in {[score |-> ScoreAlbumMatch(a.title, a.artist, query),
                            item |-> a] : a \in AlbumsMap(tracks)} :
                      e.score > 0})} :
    tracks \in GetTracks(fs)}

\* LocalMusicProvider::search_artists
ProviderSearchArtists(fs, query, limit, offset) ==
  UNION {
    {SkipTake(Items(SortByScore(o)), offset, limit) :
       o \in Perms({e \in {[score |-> ScoreArtistMatch(a.name, query),
                            item |-> a] : a \in ArtistsMap(tracks)} :
                      e.score > 0})} :
    tracks \in GetTracks(fs)}

\* LocalMusicProvider::search_all: the three searches joined, each with a
\* scan of its own; every track is wrapped in a PlayableItem of "local"
ProviderSearchAll(fs, query, limit, offset) ==
  {[ok |-> TRUE,
    tracks |-> [i \in 1..Len(ts) |-> [track |-> ts[i], provider |-> "local"]],
    albums |-> als, artists |-> ars] :
     ts \in ProviderSearchTracks(fs, query, limit, offset),
     als \in ProviderSearchAlbums(fs, query, limit, offset),
     ars \in ProviderSearchArtists(fs, query, limit, offset)}

(***************************************************************************)
(* The ServiceManager over its registered providers.                       *)
(***************************************************************************)
\* the characters of the model in code-point order
Alphabet ==
  <<" ", "#", "%", "-", ".", "/", "3", ":">> \o UpperChars \o <<"_">> \o LowerChars

Ord(c) == CHOOSE i \in 1..Len(Alphabet) : Alphabet[i] = c

\* String's Ord: a < b
RECURSIVE StrLess(_, _)
StrLess(a, b) ==
  IF b = <<>> THEN FALSE
  ELSE IF a = <<>> THEN TRUE
  ELSE IF Head(a) = Head(b) THEN StrLess(Tail(a), Tail(b))
  ELSE Ord(Head(a)) < Ord(Head(b))

\* get_all_artists: sort_by on the lower-cased name (stable)
InsertArtistByName(sorted, x) ==
  LET k == Cardinality({i \in 1..Len(sorted) :
                          ~StrLess(Lower(x.name), Lower(sorted[i].name))})
  IN SubSeq(sorted, 1, k) \o <<x>> \o SubSeq(sorted, k + 1, Len(sorted))

RECURSIVE SortArtistsByName(_)
SortArtistsByName(s) ==
  IF s = <<>> THEN <<>>
  ELSE InsertArtistByName(SortArtistsByName(SubSeq(s, 1, Len(s) - 1)), s[Len(s)])

\* get_all_artists: dedup_by(|a, b| a.name == b.name) drops an element equal
\* in name to the element kept before it
RECURSIVE DedupArtists(_, _)
DedupArtists(kept, rest) ==
  IF rest = <<>> THEN kept
  ELSE IF kept # <<>> /\ Head(rest).name = kept[Len(kept)].name
       THEN DedupArtists(kept, Tail(rest))
       ELSE DedupArtists(Append(kept, Head(rest)), Tail(rest))

\* ServiceManager::get_all_artists; "local" is the one provider the window
\* registers, and until then the map of providers is empty
ManagerGetAllArtists(reg, fs) ==
  IF ~reg THEN { <<>> }
  ELSE {DedupArtists(<<>>, SortArtistsByName(a)) : a \in GetArtists(fs)}

\* (artist, title) lower-cased: a < b
AlbumKeyLess(a, b) ==
  \/ StrLess(Lower(a.artist), Lower(b.artist))
  \/ /\ Lower(a.artist) = Lower(b.artist)
     /\ StrLess(Lower(a.title), Lower(b.title))

\* get_all_albums: sort_by on (artist, title), lower-cased (stable)
InsertAlbumByKey(sorted, x) ==
  LET k == Cardinality({i \in 1..Len(sorted) : ~AlbumKeyLess(x, sorted[i])})
  IN SubSeq(sorted, 1, k) \o <<x>> \o SubSeq(sorted, k + 1, Len(sorted))

RECURSIVE SortAlbumsByKey(_)
SortAlbumsByKey(s) ==
  IF s = <<>> THEN <<>>
  ELSE InsertAlbumByKey(SortAlbumsByKey(SubSeq(s, 1, Len(s) - 1)), s[Len(s)])

\* get_all_albums: dedup_by(|a, b| a.title == b.title && a.artist == b.artist)
RECURSIVE DedupAlbums(_, _)
DedupAlbums(kept, rest) ==
  IF rest = <<>> THEN kept
  ELSE IF /\ kept # <<>>
          /\ Head(rest).title = kept[Len(kept)].title
          /\ Head(rest).artist = kept[Len(kept)].artist
       THEN DedupAlbums(kept, Tail(rest))
       ELSE DedupAlbums(Append(kept, Head(rest)), Tail(rest))

\* ServiceManager::get_all_albums
ManagerGetAllAlbums(reg, fs) ==
  IF ~reg THEN { <<>> }
  ELSE {DedupAlbums(<<>>, SortAlbumsByKey(a)) : a \in GetAlbums(fs)}

\* a search_all that reports an empty result as an error
ManagerSearchAll_ErrOnEmpty(reg, fs, query, limit, offset) ==
  IF ~reg
  THEN {[ok |-> FALSE, tracks |-> <<>>, albums |-> <<>>, artists |-> <<>>]}
  ELSE {[r EXCEPT !.ok = (r.tracks # <<>> \/ r.albums # <<>> \/ r.artists # <<>>)] :
          r \in ProviderSearchAll(fs, query, limit, offset)}

\* ServiceManager::search_all: the results of every provider, appended; the
\* call returns Ok(all_results), an Err of a provider being logged
ManagerSearchAll(reg, fs, query, limit, offset) ==
  IF ~reg
  THEN {[ok |-> TRUE, tracks |-> <<>>, albums |-> <<>>, artists |-> <<>>]}
  ELSE ProviderSearchAll(fs, query, limit, offset)

(***************************************************************************)
(* The scores by which the window orders what the manager returned.        *)
(***************************************************************************)
\* str::starts_with
StartsWith(s, pre) == Len(pre) <= Len(s) /\ SubSeq(s, 1, Len(pre)) = pre

\* window/components/search.rs score_track
DisplayScoreTrack(track, query) ==
  LET q == Lower(query)
  IN (IF Lower(track.title) = q THEN 1200 ELSE 0)
       + (IF Contains(Lower(track.title), q) THEN 600 ELSE 0)
       + (IF Lower(track.artist) = q THEN 300 ELSE 0)
       + (IF Contains(Lower(track.artist), q) THEN 150 ELSE 0)
       + (IF Lower(track.album) = q THEN 200 ELSE 0)
       + (IF Contains(Lower(track.album), q) THEN 100 ELSE 0)

\* window.rs calculate_match_score, given the lower-cased text and query
CalculateMatchScore(text, query) ==
  IF text = query THEN 100
  ELSE IF StartsWith(text, query) THEN 75
  ELSE IF Contains(text, query) THEN 50
  ELSE 0

\* the tags of the files in the music directory
ProviderTagSets ==
  { Tag(<<>>, <<ArtistX>>, <<AlbumLP>>, <<>>),
    Tag(<<TitleSong>>, <<ArtistX>>, <<>>, <<>>),
    Tag(<<>>, <<>>, <<AlbumLP>>, <<>>),
    Tag(<<>>, <<>>, <<>>, <<>>) }

ProviderQueries == { <<>>, <<"u", "n">>, <<"L", "P">>, <<"x", " ", "l", "p">> }

\* the (limit, offset) pairs of the searches
ProviderPages == { <<2, 0>>, <<1, 0>>, <<1, 1>> }

(***************************************************************************)
(* The filesystem watcher: the notify callback on the watcher's thread,    *)
(* the idle closures of the main loop and the bounded channel.             *)
(***************************************************************************)
\* bounded(100)
ChannelCap == 100

\* FileEvent::Created(path), Modified(path), Removed(path)
FileEvent(kind, path) == [kind |-> kind, path |-> path]

\* a raw notification of the OS: EventKind and event.paths
Raw(kind, paths) == [kind |-> kind, paths |-> paths]

\* a callback that forwards a modify notification without looking at the path
Classify_ModifyUnchecked(kind, path, disk) ==
  CASE kind = "create" ->
         IF path \in disk THEN <<FileEvent("Created", path)>> ELSE <<>>
    [] kind = "modify" -> <<FileEvent("Modified", path)>>
    [] kind = "remove" -> <<FileEvent("Removed", path)>>
    [] OTHER -> <<>>

\* the callback's match on event.kind, with path.exists() read from the
\* files on disk at that moment: <<>> is None, <<e>> is Some(e)
Classify(kind, path, disk) ==
  CASE kind = "create" ->
         IF path \in disk THEN <<FileEvent("Created", path)>> ELSE <<>>
    [] kind = "modify" ->
         IF path \in disk THEN <<FileEvent("Modified", path)>>
         ELSE <<FileEvent("Removed", path)>>
    [] kind = "remove" -> <<FileEvent("Removed", path)>>
    [] OTHER -> <<>>

\* the main loop runs the closure that was scheduled last
NextIdle_Last(q) == [event |-> q[Len(q)], rest |-> SubSeq(q, 1, Len(q) - 1)]

\* the main loop runs the idle closures in the order they were scheduled
NextIdle(q) == [event |-> Head(q), rest |-> Tail(q)]

\* Sender::send can complete: the bounded channel has room
HasRoom(ch) == Len(ch) < ChannelCap

\* Receiver::try_recv on a channel that holds a message
TryRecv(ch) == [event |-> Head(ch), rest |-> Tail(ch)]

\* a file that was modified before the model starts; its events are the
\* backlog of a channel that nobody has polled
PathOld == <<"/", "o", ".", "m", "p", "3">>

Backlog(n) == [i \in 1..n |-> FileEvent("Modified", PathOld)]

\* who calls try_receive: nobody, code on the main-loop thread, or a thread
\* of its own
Consumers == {"none", "main", "thread"}

(***************************************************************************)
(* State: the catalog and a record of the last operation.                  *)
(***************************************************************************)
VARIABLES
  db,      \* the tables of the shared in-memory database
  last,    \* the last completed operation: its arguments, the tables before
           \* it, its result, and whether it repeats the operation before it
  nops,    \* number of operations run so far
  procs,   \* the store operations running concurrently, one per thread
  locks,   \* the shared-cache locks of their connections
  start,   \* the tables when the running operations were started
  obs,     \* the last result a reader got
  files,       \* the music directory: the tags of the file at each path
  registered,  \* the manager has the local provider
  reply,       \* the result of the last query of the provider or manager
  calls,       \* the searches made since the music directory last changed
  disk,      \* the files that exist under the watched root
  raws,      \* the raw notifications the OS has raised, in order
  cb,        \* the callback: n notifications taken, k the next path of the
             \* n-th one (0: none in progress)
  alive,     \* the watcher's thread runs
  hist,      \* the paths the callback has handled, in order
  idleq,     \* the idle closures scheduled on the main loop
  sending,   \* the event of the send the main-loop thread is blocked in
  chan,      \* the bounded channel
  got,       \* the events try_receive has returned, in order
  consumer,  \* who calls try_receive
  outcomes,  \* what the consumer task did with each event it took
  building,  \* the catalog a rescan is filling and the files still to scan
  tags,      \* the tags of the file the extractor reads, in file order
  taken,     \* how many of them its loop has handled
  fields,    \* the fields of the track it is building
  entry_text,      \* the text of the header search entry
  search_version,  \* NovaWindow::search_version
  handle,          \* current_search_handle: the version of the task it
                   \* names, 0 when None
  tasks,           \* the search tasks alive on the main context
  renders,         \* the render tasks spawned and not yet run, in order
  page,            \* the visible child of search_stack
  shown,           \* the query whose results fill the result boxes
  rendered,        \* the last call of update_search_results: the version
                   \* of its results and search_version at the call
  providers,       \* ServiceManager::providers: the provider registered
                   \* under each name
  pool,            \* per thread: the store operation it runs, where it is
                   \* and how many pooled connections it holds
  queue,           \* AudioPlayer::queue: its tracks and current_index
  current_track,   \* AudioPlayer::current_track
  played           \* the last call on the player: its name, current_index
                   \* before it and what it returned

svars == <<db, last, nops, procs, locks, start, obs>>
pvars == <<files, registered, reply, calls>>
wvars == <<disk, raws, cb, alive, hist, idleq, sending, chan, got, consumer>>
nvars == <<outcomes, building>>
evars == <<tags, taken, fields>>
qvars == <<entry_text, search_version, handle, tasks, renders, page, shown, rendered>>
mvars == <<providers>>
lvars == <<pool>>
avars == <<queue, current_track, played>>
uvars == <<evars, qvars, mvars, lvars, avars>>
xvars == <<pvars, wvars, nvars, uvars>>
vars == <<svars, xvars>>
cvars == <<procs, locks, start, obs, xvars>>

NoOp == [op |-> "none", t |-> <<>>, ts |-> <<>>, path |-> <<>>, info |-> <<>>,
         pre |-> EmptyDb, ok |-> TRUE, failed_at |-> 0, again |-> FALSE,
         exists |-> {}]

\* the tracks the two extractors produce for the files of the model
InputTracks ==
  {ProcessFile(p, g) : p \in Paths, g \in TagSets}
    \cup {GetTracksTrack(p, g) : p \in Paths, g \in ScanTagSets}

\* the tracks of a bulk scan
BatchTracks ==
  {ProcessFile(p, g) : p \in Paths,
     g \in {Tag(<<>>, <<ArtistX>>, <<AlbumLP>>, <<>>)}}
    \cup {ProcessFile(PathB, Tag(<<>>, <<ArtistBX>>, <<AlbumLP>>, <<>>))}

Batches == UNION {[1..n -> BatchTracks] : n \in 0..MaxBatch}

\* the threads that run store operations
Procs == {1, 2}

NoCall == [kind |-> "none", t |-> <<>>, ts |-> <<>>, path |-> <<>>]
Idle == [state |-> "idle", call |-> NoCall, prog |-> <<>>, pc |-> 1,
         info |-> <<>>, ok |-> TRUE]
NoObs == [what |-> "none", rows |-> {}, during |-> {}]
NoRes == [kind |-> "none", query |-> <<>>, limit |-> 0, offset |-> 0,
          ok |-> TRUE, tracks |-> <<>>, albums |-> <<>>, artists |-> <<>>,
          paths |-> <<>>]

\* the provider, untouched while the store is exercised on its own
ProviderIdle ==
  /\ files = [p \in Paths |-> NoFile]
  /\ registered = FALSE
  /\ reply = NoRes
  /\ calls = <<>>

\* no consumer task and no rescan
TasksIdle ==
  /\ outcomes = <<>>
  /\ building = <<>>

\* the extractor, reading no file
ExtractorIdle ==
  /\ tags = <<>>
  /\ taken = 0
  /\ fields = <<>>

\* the search view before the first edit of the search entry
SearchViewIdle ==
  /\ entry_text = <<>>
  /\ search_version = 0
  /\ handle = 0
  /\ tasks = {}
  /\ renders = <<>>
  /\ page = "empty_search_page"
  /\ shown = <<>>
  /\ rendered = <<>>

\* ServiceManager::new(): no provider
ManagerIdle == providers = <<>>

\* no thread uses the connection pool
PoolIdle == pool = <<>>

\* Queue::new(tracks): current_index is None (<<>>); Some(i) is <<i>>
QueueNew(tracks) == [tracks |-> tracks, current_index |-> <<>>]

NoPlay == [op |-> "none", pre |-> <<>>, result |-> <<>>]

\* AudioPlayer::new(): an empty queue, nothing playing
PlayerIdle ==
  /\ queue = QueueNew(<<>>)
  /\ current_track = <<>>
  /\ played = NoPlay

\* the parts of the program outside the catalog, the provider and the watcher
FrontIdle ==
  /\ ExtractorIdle
  /\ SearchViewIdle
  /\ ManagerIdle
  /\ PoolIdle
  /\ PlayerIdle

\* the watcher, not started
WatcherIdle ==
  /\ disk = {}
  /\ raws = <<>>
  /\ cb = [n |-> 0, k |-> 0]
  /\ alive = FALSE
  /\ hist = <<>>
  /\ idleq = <<>>
  /\ sending = <<>>
  /\ chan = <<>>
  /\ got = <<>>
  /\ consumer = "none"

\* the store, untouched while the provider is exercised
StoreIdle ==
  /\ db = EmptyDb
  /\ last = NoOp
  /\ nops = 0
  /\ procs = [p \in Procs |-> Idle]
  /\ locks = NoLocks
  /\ start = EmptyDb
  /\ obs = NoObs

Init ==
  /\ db = EmptyDb
  /\ last = NoOp
  /\ nops = 0
  /\ procs = [p \in Procs |-> Idle]
  /\ locks = NoLocks
  /\ start = EmptyDb
  /\ obs = NoObs
  /\ ProviderIdle
  /\ WatcherIdle
  /\ TasksIdle
  /\ FrontIdle

\* insert_track(t)
DoInsertTrack(t) ==
  /\ nops < MaxOps
  /\ db' = InsertTrack(db, t)
  /\ last' = [NoOp EXCEPT !.op = "insert_track", !.t = t, !.pre = db,
                          !.again = (last.op = "insert_track" /\ last.t = t)]
  /\ nops' = nops + 1
  /\ UNCHANGED cvars

\* batch_insert_tracks(ts)
DoBatchInsertTracks(ts, outcome) ==
  /\ nops < MaxOps
  /\ LET r == BatchInsertTracks(db, ts, outcome)
     IN /\ db' = r.db
        /\ last' = [NoOp EXCEPT !.op = "batch_insert_tracks", !.ts = ts,
                                !.pre = db, !.ok = r.ok,
                                !.failed_at = r.failed_at]
  /\ nops' = nops + 1
  /\ UNCHANGED cvars

\* remove_track_by_path(path)
DoRemoveTrackByPath(path, info) ==
  /\ nops < MaxOps
  /\ info \in TrackInfos(db, path)
  /\ db' = RemoveTrackByPath(db, path, info)
  /\ last' = [NoOp EXCEPT !.op = "remove_track_by_path", !.path = path,
                          !.info = info, !.pre = db]
  /\ nops' = nops + 1
  /\ UNCHANGED cvars

\* cleanup_database() while the files of `exists` are on disk
DoCleanupDatabase(exists) ==
  /\ nops < MaxOps
  /\ \E r \in CleanupDatabase(db, exists) :
       /\ db' = r.db
       /\ last' = [NoOp EXCEPT !.op = "cleanup_database", !.exists = exists,
                               !.pre = db, !.ok = r.ok]
  /\ nops' = nops + 1
  /\ UNCHANGED cvars

Next ==
  \/ \E t \in InputTracks : DoInsertTrack(t)
  \/ \E ts \in Batches, outcome \in RollbackOutcomes :
       DoBatchInsertTracks(ts, outcome)
  \/ \E path \in Paths, info \in {<<>>} \cup
         {<<[artist |-> r.artist, album |-> r.album]>> : r \in db.tracks} :
       DoRemoveTrackByPath(path, info)
  \/ \E exists \in SUBSET Paths : DoCleanupDatabase(exists)

Spec == Init /\ [][Next]_vars

(***************************************************************************)
(* The store operations run by concurrent threads (SpecConc).  A step is   *)
(* one SQL statement or one COMMIT; BEGIN DEFERRED takes no lock and is    *)
(* part of the statement that follows it.                                  *)
(***************************************************************************)
\* number of times a pair of operations is started
MaxRounds == 1

Instr(k, c, t, path) == [k |-> k, c |-> c, t |-> t, path |-> path]

\* ensure_artist and ensure_album on connection c: one INSERT OR IGNORE and
\* its COMMIT each
EnsureProg(t, c) ==
  << Instr("ensure_artist", c, t, <<>>), Instr("commit", c, <<>>, <<>>),
     Instr("ensure_album", c, t, <<>>), Instr("commit", c, <<>>, <<>>) >>

\* insert_track: every transaction takes a connection and gives it back
InsertTrackProg(t) ==
  EnsureProg(t, 1) \o
  << Instr("insert", 1, t, <<>>), Instr("commit", 1, <<>>, <<>>) >>

\* batch_insert_tracks: the INSERTs run in the outer transaction of
\* connection 1, which commits after the loop
RECURSIVE BatchBody(_)
BatchBody(ts) ==
  IF ts = <<>> THEN <<>>
  ELSE EnsureProg(Head(ts), 2) \o << Instr("insert", 1, Head(ts), <<>>) >>
         \o BatchBody(Tail(ts))

BatchInsertTracksProg(ts) ==
  BatchBody(ts) \o << Instr("commit", 1, <<>>, <<>>) >>

\* remove_track_by_path: the SELECT, then the DELETEs and COUNTs, then COMMIT
RemoveTrackByPathProg(path) ==
  << Instr("select", 1, <<>>, path), Instr("delete", 1, <<>>, path),
     Instr("commit", 1, <<>>, <<>>) >>

ProgOf(call) ==
  CASE call.kind = "insert_track" -> InsertTrackProg(call.t)
    [] call.kind = "batch_insert_tracks" -> BatchInsertTracksProg(call.ts)
    [] call.kind = "remove_track_by_path" -> RemoveTrackByPathProg(call.path)
    [] OTHER -> <<>>

\* the tracks and calls of the concurrent runs
TrackA == ProcessFile(PathA, Tag(<<>>, <<ArtistX>>, <<AlbumLP>>, <<>>))
TrackB == ProcessFile(PathB, Tag(<<>>, <<ArtistX>>, <<AlbumLP>>, <<>>))

Calls ==
  { [NoCall EXCEPT !.kind = "insert_track", !.t = TrackA],
    [NoCall EXCEPT !.kind = "remove_track_by_path", !.path = PathB],
    [NoCall EXCEPT !.kind = "batch_insert_tracks", !.ts = <<TrackA>>],
    [NoCall EXCEPT !.kind = "batch_insert_tracks", !.ts = <<TrackA, TrackB>>] }

\* the catalogs the concurrent runs start from
StartCatalogs == {EmptyDb, InsertTrack(EmptyDb, TrackB)}

InitConc ==
  /\ db \in StartCatalogs
  /\ last = NoOp
  /\ nops = 0
  /\ procs = [p \in Procs |-> Idle]
  /\ locks = NoLocks
  /\ start = db
  /\ obs = NoObs
  /\ ProviderIdle
  /\ WatcherIdle
  /\ TasksIdle
  /\ FrontIdle

\* two threads call the store at the same time
Launch(c1, c2) ==
  /\ nops < MaxRounds
  /\ \A p \in Procs : procs[p].state # "run"
  /\ procs' = [p \in Procs |->
                 LET call == IF p = 1 THEN c1 ELSE c2
                 IN [Idle EXCEPT !.state = "run", !.call = call,
                                 !.prog = ProgOf(call)]]
  /\ start' = db
  /\ nops' = nops + 1
  /\ UNCHANGED <<db, last, locks, obs, xvars>>

\* the call of thread p returns Err: its transactions are dropped, which
\* rolls back the one that holds the write transaction
Fail(p, outcome) ==
  /\ db' = IF locks.wowner[1] = p
           THEN Rollback(locks, locks.wowner, db, outcome)
           ELSE db
  /\ locks' = Release(Release(locks, Conn(p, 1)), Conn(p, 2))
  /\ procs' = [procs EXCEPT ![p].state = "done", ![p].ok = FALSE]

\* thread p runs its next statement
Step(p, outcome) ==
  /\ procs[p].state = "run"
  /\ procs[p].pc <= Len(procs[p].prog)
  /\ LET ins == procs[p].prog[procs[p].pc]
         c == Conn(p, ins.c)
         next == [procs EXCEPT ![p].pc = @ + 1]
     IN CASE ins.k = "ensure_artist" ->
               IF CanWrite(locks, c, "artists")
               THEN /\ db' = InsertOrIgnoreArtist(db, ins.t.artist)
                    /\ locks' = AcquireWrite(locks, c, "artists", db)
                    /\ procs' = next
               ELSE Fail(p, outcome)
          [] ins.k = "ensure_album" ->
               IF CanWrite(locks, c, "albums")
               THEN /\ db' = InsertOrIgnoreAlbum(db, ins.t.album, ins.t.artist,
                                                 ins.t.release_year)
                    /\ locks' = AcquireWrite(locks, c, "albums", db)
                    /\ procs' = next
               ELSE Fail(p, outcome)
          [] ins.k = "insert" ->
               IF CanWrite(locks, c, "tracks")
               THEN /\ db' = InsertOrReplaceTrack(db, ins.t)
                    /\ locks' = AcquireWrite(locks, c, "tracks", db)
                    /\ procs' = next
               ELSE Fail(p, outcome)
          [] ins.k = "select" ->
               IF CanRead(locks, c, {"tracks"})
               THEN /\ \E info \in TrackInfos(db, ins.path) :
                         procs' = [next EXCEPT ![p].info = info]
                    /\ locks' = [locks EXCEPT !.rlocks = @ \cup {<<c, "tracks">>}]
                    /\ db' = db
               ELSE Fail(p, outcome)
          [] ins.k = "delete" ->
               IF CanWrite(locks, c, "tracks")
               THEN /\ db' = DeleteTrackAndOrphans(db, ins.path, procs[p].info)
                    /\ locks' = AcquireWrite(locks, c, "tracks", db)
                    /\ procs' = next
               ELSE Fail(p, outcome)
          [] ins.k = "commit" ->
               /\ db' = db
               /\ locks' = Release(locks, c)
               /\ procs' = next
  /\ UNCHANGED <<last, nops, start, obs, xvars>>

\* the call of thread p returns Ok
Return(p) ==
  /\ procs[p].state = "run"
  /\ procs[p].pc > Len(procs[p].prog)
  /\ procs' = [procs EXCEPT ![p].state = "done"]
  /\ UNCHANGED <<db, last, nops, locks, start, obs, xvars>>

\* the connection of a reading thread
ReaderConn == Conn(3, 1)

\* the batches that are running, with the tables they started from
RunningBatches ==
  {[ts |-> procs[p].call.ts, pre |-> start] :
     p \in {q \in Procs : /\ procs[q].state = "run"
                          /\ procs[q].pc <= Len(procs[q].prog)
                          /\ procs[q].call.kind = "batch_insert_tracks"}}

\* a read whose statement meets a table locked by a writer: the failed row
\* is dropped by filter_map(Result::ok) and the read returns no rows
ReadRows(tables, rows) ==
  IF CanRead(locks, ReaderConn, tables) THEN rows ELSE {}

\* get_all_tracks, get_all_albums or get_all_artists by another thread
Read(what) ==
  /\ \E p \in Procs : procs[p].state = "run"
  /\ obs' = [what |-> what,
             rows |-> CASE what = "tracks" ->
                             ReadRows({"tracks"}, GetAllTracks(db))
                        [] what = "albums" ->
                             ReadRows({"albums", "tracks"}, GetAllAlbums(db))
                        [] what = "artists" ->
                             ReadRows({"artists", "tracks"}, GetAllArtists(db)),
             during |-> RunningBatches]
  /\ UNCHANGED <<db, last, nops, procs, locks, start, xvars>>

NextConc ==
  \/ \E c1, c2 \in Calls : Launch(c1, c2)
  \/ \E p \in Procs, outcome \in RollbackOutcomes : Step(p, outcome)
  \/ \E p \in Procs : Return(p)
  \/ \E what \in {"tracks", "albums", "artists"} : Read(what)

SpecConc == InitConc /\ [][NextConc]_vars

(***************************************************************************)
(* The provider and the manager queried while the music directory changes  *)
(* (SpecProv).                                                             *)
(***************************************************************************)
InitProv ==
  /\ StoreIdle
  /\ files = [p \in Paths |-> NoFile]
  /\ registered = FALSE
  /\ reply = NoRes
  /\ calls = <<>>
  /\ WatcherIdle
  /\ TasksIdle
  /\ FrontIdle

\* the window's spawned task registers the local provider
RegisterProvider ==
  /\ ~registered
  /\ registered' = TRUE
  /\ UNCHANGED <<svars, wvars, nvars, calls, files, reply, uvars>>

\* a file is written, or tagged anew, in the music directory
WriteFile(p, tag) ==
  /\ files[p] # <<tag>>
  /\ files' = [files EXCEPT ![p] = <<tag>>]
  /\ UNCHANGED <<svars, wvars, nvars, calls, registered, reply, uvars>>

\* a file is deleted
RemoveFile(p) ==
  /\ files[p] # NoFile
  /\ files' = [files EXCEPT ![p] = NoFile]
  /\ UNCHANGED <<svars, wvars, nvars, calls, registered, reply, uvars>>

\* LocalMusicProvider::get_artists
QueryGetArtists ==
  /\ \E r \in GetArtists(files) :
       reply' = [NoRes EXCEPT !.kind = "get_artists", !.artists = r]
  /\ UNCHANGED <<svars, wvars, nvars, calls, files, registered, uvars>>

\* LocalMusicProvider::get_albums
QueryGetAlbums ==
  /\ \E r \in GetAlbums(files) :
       reply' = [NoRes EXCEPT !.kind = "get_albums", !.albums = r]
  /\ UNCHANGED <<svars, wvars, nvars, calls, files, registered, uvars>>

\* LocalMusicProvider::search_artists(query, limit, offset)
QuerySearchArtists(query, limit, offset) ==
  /\ \E r \in ProviderSearchArtists(files, query, limit, offset) :
       reply' = [NoRes EXCEPT !.kind = "search_artists", !.artists = r,
                            !.query = query]
  /\ UNCHANGED <<svars, wvars, nvars, calls, files, registered, uvars>>

\* LocalMusicProvider::search_albums(query, limit, offset)
QuerySearchAlbums(query, limit, offset) ==
  /\ \E r \in ProviderSearchAlbums(files, query, limit, offset) :
       reply' = [NoRes EXCEPT !.kind = "search_albums", !.albums = r,
                            !.query = query]
  /\ UNCHANGED <<svars, wvars, nvars, calls, files, registered, uvars>>

\* ServiceManager::search_all(query, None, limit, offset)
QuerySearchAll(query, limit, offset) ==
  /\ \E r \in ManagerSearchAll(registered, files, query, limit, offset) :
       reply' = [NoRes EXCEPT !.kind = "search_all", !.tracks = r.tracks,
                            !.albums = r.albums, !.artists = r.artists,
                            !.query = query]
  /\ UNCHANGED <<svars, wvars, nvars, calls, files, registered, uvars>>

\* ServiceManager::get_all_artists
QueryManagerGetAllArtists ==
  /\ \E r \in ManagerGetAllArtists(registered, files) :
       reply' = [NoRes EXCEPT !.kind = "manager_get_all_artists", !.artists = r]
  /\ UNCHANGED <<svars, wvars, nvars, calls, files, registered, uvars>>

\* ServiceManager::get_all_albums
QueryManagerGetAllAlbums ==
  /\ \E r \in ManagerGetAllAlbums(registered, files) :
       reply' = [NoRes EXCEPT !.kind = "manager_get_all_albums", !.albums = r]
  /\ UNCHANGED <<svars, wvars, nvars, calls, files, registered, uvars>>

NextProv ==
  \/ RegisterProvider
  \/ \E p \in Paths, tag \in ProviderTagSets : WriteFile(p, tag)
  \/ \E p \in Paths : RemoveFile(p)
  \/ QueryGetArtists
  \/ QueryGetAlbums
  \/ \E q \in ProviderQueries, pg \in ProviderPages : QuerySearchArtists(q, pg[1], pg[2])
  \/ \E q \in ProviderQueries, pg \in ProviderPages : QuerySearchAlbums(q, pg[1], pg[2])
  \/ \E q \in ProviderQueries, pg \in ProviderPages : QuerySearchAll(q, pg[1], pg[2])
  \/ QueryManagerGetAllArtists
  \/ QueryManagerGetAllAlbums

SpecProv == InitProv /\ [][NextProv]_vars

(***************************************************************************)
(* The watcher at work (SpecWatch).                                        *)
(***************************************************************************)
\* bound on the raw notifications of a run
MaxRaw == 2

InitWatch ==
  /\ StoreIdle
  /\ ProviderIdle
  /\ disk = {PathA}
  /\ raws = <<>>
  /\ cb = [n |-> 0, k |-> 0]
  /\ alive = TRUE
  /\ hist = <<>>
  /\ idleq = <<>>
  /\ sending = <<>>
  /\ chan \in {Backlog(0), Backlog(ChannelCap - 1)}
  /\ got = <<>>
  /\ consumer \in Consumers
  /\ TasksIdle
  /\ FrontIdle

\* the OS queues a notification for the watcher's thread
Notify(kind, paths) ==
  /\ Len(raws) < MaxRaw
  /\ raws' = Append(raws, Raw(kind, paths))

\* a file is created under the watched root
FsCreate(p) ==
  /\ p \notin disk
  /\ disk' = disk \cup {p}
  /\ Notify("create", <<p>>)
  /\ UNCHANGED <<svars, pvars, building, outcomes, cb, alive, hist, idleq, sending, chan, got, consumer, uvars>>

\* a file is written
FsModify(p) ==
  /\ p \in disk
  /\ Notify("modify", <<p>>)
  /\ UNCHANGED <<svars, pvars, building, outcomes, disk, cb, alive, hist, idleq, sending, chan, got,
                 consumer, uvars>>

\* a file is deleted
FsRemove(p) ==
  /\ p \in disk
  /\ disk' = disk \ {p}
  /\ Notify("remove", <<p>>)
  /\ UNCHANGED <<svars, pvars, building, outcomes, cb, alive, hist, idleq, sending, chan, got, consumer, uvars>>

\* a file is renamed: one modify notification with both paths
FsRename(p, q) ==
  /\ p \in disk
  /\ q \notin disk
  /\ disk' = (disk \ {p}) \cup {q}
  /\ Notify("modify", <<p, q>>)
  /\ UNCHANGED <<svars, pvars, building, outcomes, cb, alive, hist, idleq, sending, chan, got, consumer, uvars>>

\* a file is opened for reading: a notification of another kind
FsAccess(p) ==
  /\ p \in disk
  /\ Notify("access", <<p>>)
  /\ UNCHANGED <<svars, pvars, building, outcomes, disk, cb, alive, hist, idleq, sending, chan, got,
                 consumer, uvars>>

\* the callback, on the watcher's thread, handles the next path of the
\* notification it is in, or of the next notification.  `owned`: the default
\* main context is held by the main-loop thread, and idle_add_local_once,
\* called from this thread, panics; the thread ends
Callback(owned) ==
  /\ alive
  /\ cb.k > 0 \/ cb.n < Len(raws)
  /\ LET n == IF cb.k > 0 THEN cb.n ELSE cb.n + 1
         k == IF cb.k > 0 THEN cb.k ELSE 1
         raw == raws[n]
         path == raw.paths[k]
         event == Classify(raw.kind, path, disk)
         entry == [n |-> n, kind |-> raw.kind, path |-> path,
                   existed |-> path \in disk, event |-> event,
                   sent |-> event # <<>> /\ ~owned]
     IN /\ hist' = Append(hist, entry)
        /\ IF event # <<>> /\ owned
           THEN /\ alive' = FALSE
                /\ cb' = [n |-> n, k |-> 0]
                /\ idleq' = idleq
           ELSE /\ alive' = alive
                /\ cb' = [n |-> n, k |-> IF k = Len(raw.paths) THEN 0 ELSE k + 1]
                /\ idleq' = IF event = <<>> THEN idleq ELSE Append(idleq, event[1])
  /\ UNCHANGED <<svars, pvars, building, outcomes, disk, raws, sending, chan, got, consumer, uvars>>

\* the main loop runs an idle closure: tx.send(event) returns when the
\* channel has room, and blocks the main-loop thread when it is full
IdleSend ==
  /\ sending = <<>>
  /\ idleq # <<>>
  /\ idleq' = NextIdle(idleq).rest
  /\ IF HasRoom(chan)
     THEN /\ chan' = Append(chan, NextIdle(idleq).event)
          /\ sending' = sending
     ELSE /\ chan' = chan
          /\ sending' = <<NextIdle(idleq).event>>
  /\ UNCHANGED <<svars, pvars, building, outcomes, disk, raws, cb, alive, hist, got, consumer, uvars>>

\* a blocked send returns once the channel has room
SendReturns ==
  /\ sending # <<>>
  /\ HasRoom(chan)
  /\ chan' = Append(chan, sending[1])
  /\ sending' = <<>>
  /\ UNCHANGED <<svars, pvars, building, outcomes, disk, raws, cb, alive, hist, idleq, got, consumer, uvars>>

\* FileWatcher::try_receive returns Some(event); code on the main-loop
\* thread does not run while that thread is inside send
TryReceive ==
  /\ consumer # "none"
  /\ consumer = "main" => sending = <<>>
  /\ chan # <<>>
  /\ got' = Append(got, TryRecv(chan).event)
  /\ chan' = TryRecv(chan).rest
  /\ UNCHANGED <<svars, pvars, building, outcomes, disk, raws, cb, alive, hist, idleq, sending, consumer, uvars>>

NextWatch ==
  \/ \E p \in Paths : FsCreate(p)
  \/ \E p \in Paths : FsModify(p)
  \/ \E p \in Paths : FsRemove(p)
  \/ \E p, q \in Paths : FsRename(p, q)
  \/ \E p \in Paths : FsAccess(p)
  \/ \E owned \in BOOLEAN : Callback(owned)
  \/ IdleSend
  \/ SendReturns
  \/ TryReceive

SpecWatch == InitWatch /\ [][NextWatch]_vars

(***************************************************************************)
(* The running provider (SpecSync): the watcher of the source and the      *)
(* store of the source, joined by the consumer task that the design        *)
(* describes.  The consumer is a task of its own.                          *)
(***************************************************************************)
\* the tags the extractor may find in a file it re-reads
SyncTagSets ==
  { Tag(<<>>, <<ArtistX>>, <<AlbumLP>>, <<>>),
    Tag(<<TitleSong>>, <<ArtistBX>>, <<AlbumLP>>, <<>>) }

\* the catalog after the initial scan of the one file on disk
InitSync ==
  /\ db = InsertTrack(EmptyDb, TrackA)
  /\ last = NoOp
  /\ nops = 0
  /\ procs = [p \in Procs |-> Idle]
  /\ locks = NoLocks
  /\ start = EmptyDb
  /\ obs = NoObs
  /\ ProviderIdle
  /\ building = <<>>
  /\ disk = {PathA}
  /\ raws = <<>>
  /\ cb = [n |-> 0, k |-> 0]
  /\ alive = TRUE
  /\ hist = <<>>
  /\ idleq = <<>>
  /\ sending = <<>>
  /\ chan = <<>>
  /\ got = <<>>
  /\ outcomes = <<>>
  /\ consumer = "thread"
  /\ FrontIdle

\* what re-extracting a path may give: <<>> when the extraction fails, as it
\* does for a missing file and may for an unreadable one, else <<track>>
Extractions(path, exists) ==
  IF exists
  THEN { <<>> } \cup { <<ProcessFile(path, g)>> : g \in SyncTagSets }
  ELSE { <<>> }

\* a consumer that deletes the row of a path whose extraction fails
ApplyEvent_DropsOnFailure(d, event, extracted, info) ==
  IF event.kind \in {"Created", "Modified"}
  THEN IF extracted # <<>>
       THEN [db |-> InsertTrack(d, extracted[1]), outcome |-> "upserted"]
       ELSE [db |-> RemoveTrackByPath(d, event.path, info),
             outcome |-> "skipped"]
  ELSE [db |-> RemoveTrackByPath(d, event.path, info), outcome |-> "deleted"]

\* what the consumer does with an event: a Created or Modified path is
\* extracted again and upserted, or skipped when the extraction fails; a
\* Removed path is deleted by path
ApplyEvent(d, event, extracted, info) ==
  IF event.kind \in {"Created", "Modified"}
  THEN IF extracted # <<>>
       THEN [db |-> InsertTrack(d, extracted[1]), outcome |-> "upserted"]
       ELSE [db |-> d, outcome |-> "skipped"]
  ELSE [db |-> RemoveTrackByPath(d, event.path, info), outcome |-> "deleted"]

\* the consumer task takes the next event with try_receive and applies it
Consume(extracted, info) ==
  /\ chan # <<>>
  /\ LET event == TryRecv(chan).event
         r == ApplyEvent(db, event, extracted, info)
     IN /\ db' = r.db
        /\ outcomes' = Append(outcomes, r.outcome)
        /\ got' = Append(got, event)
  /\ chan' = TryRecv(chan).rest
  /\ UNCHANGED <<last, nops, procs, locks, start, obs, pvars, building,
                 disk, raws, cb, alive, hist, idleq, sending, consumer, uvars>>

ConsumeNext ==
  /\ chan # <<>>
  /\ LET path == TryRecv(chan).event.path
     IN \E extracted \in Extractions(path, path \in disk),
           info \in TrackInfos(db, path) :
          Consume(extracted, info)

\* the channel starts empty and holds at most two events for each of the
\* MaxRaw notifications, so that the idle closure's send never waits
NextSync ==
  \/ \E p \in Paths : FsCreate(p)
  \/ \E p \in Paths : FsModify(p)
  \/ \E p \in Paths : FsRemove(p)
  \/ \E p, q \in Paths : FsRename(p, q)
  \/ \E owned \in BOOLEAN : Callback(owned)
  \/ IdleSend
  \/ ConsumeNext

\* the consumer task is scheduled as long as it has an event to take
SpecSync == InitSync /\ [][NextSync]_vars /\ WF_vars(ConsumeNext)

(***************************************************************************)
(* Rescans (SpecRescan): a new catalog is filled from a scan of the music  *)
(* directory and then swapped in for the live one, as the design           *)
(* describes; the catalogs are stores of the source.                       *)
(***************************************************************************)
\* bound on the rescans of a run
MaxRescans == 2

\* a query that reads the catalog a rescan is still filling
QueryCatalog_Unfinished(live, build) ==
  IF build = <<>> THEN live ELSE build[1].cat

\* the catalog a query reads: the live one
QueryCatalog(live, build) == live

\* the catalog of a whole scan: every file extracted and upserted
RECURSIVE ScanInto(_, _, _)
ScanInto(d, fs, todo) ==
  IF todo = {} THEN d
  ELSE LET p == CHOOSE q \in todo : \A o \in todo : ~StrLess(o, q)
       IN ScanInto(InsertTrack(d, ProcessFile(p, fs[p][1])), fs, todo \ {p})

InitRescan ==
  /\ StoreIdle
  /\ registered = FALSE
  /\ reply = NoRes
  /\ calls = <<>>
  /\ WatcherIdle
  /\ outcomes = <<>>
  /\ building = <<>>
  /\ files \in [Paths -> {NoFile} \cup {<<g>> : g \in SyncTagSets}]
  /\ FrontIdle

\* rescan() starts: a new, empty catalog and the files the scan found
RescanStart ==
  /\ building = <<>>
  /\ nops < MaxRescans
  /\ nops' = nops + 1
  /\ building' = <<[cat |-> EmptyDb, todo |-> {p \in Paths : files[p] # NoFile}]>>
  /\ UNCHANGED <<db, last, procs, locks, start, obs, pvars, wvars, outcomes, uvars>>

\* the rescan extracts one more file and upserts it into the new catalog
RescanFile(p) ==
  /\ building # <<>>
  /\ p \in building[1].todo
  /\ building' = <<[cat |-> InsertTrack(building[1].cat,
                                         ProcessFile(p, files[p][1])),
                    todo |-> building[1].todo \ {p}]>>
  /\ UNCHANGED <<svars, pvars, wvars, outcomes, uvars>>

\* the scan is complete: the new catalog replaces the live one
RescanSwap ==
  /\ building # <<>>
  /\ building[1].todo = {}
  /\ db' = building[1].cat
  /\ building' = <<>>
  /\ UNCHANGED <<last, nops, procs, locks, start, obs, pvars, wvars, outcomes, uvars>>

\* the music directory changes between two rescans
FilesChange(p, f) ==
  /\ building = <<>>
  /\ nops < MaxRescans
  /\ files[p] # f
  /\ files' = [files EXCEPT ![p] = f]
  /\ UNCHANGED <<svars, registered, reply, calls, wvars, outcomes, building, uvars>>

\* get_all_tracks, get_all_albums or get_all_artists of the provider
RescanQuery(what) ==
  /\ LET d == QueryCatalog(db, building)
     IN obs' = [what |-> what,
                rows |-> CASE what = "tracks" -> GetAllTracks(d)
                           [] what = "albums" -> GetAllAlbums(d)
                           [] what = "artists" -> GetAllArtists(d),
                during |-> IF building = <<>> THEN {}
                           ELSE {[old |-> db,
                                  new |-> ScanInto(EmptyDb, files,
                                            {p \in Paths : files[p] # NoFile})]}]
  /\ UNCHANGED <<db, last, nops, procs, locks, start, pvars, wvars, outcomes,
                 building, uvars>>

NextRescan ==
  \/ RescanStart
  \/ \E p \in Paths : RescanFile(p)
  \/ RescanSwap
  \/ \E p \in Paths, f \in {NoFile} \cup {<<g>> : g \in SyncTagSets} :
       FilesChange(p, f)
  \/ \E what \in {"tracks", "albums", "artists"} : RescanQuery(what)

SpecRescan == InitRescan /\ [][NextRescan]_vars

(***************************************************************************)
(* The directory walk and the track extraction over music directories of   *)
(* all shapes (SpecScan).                                                  *)
(***************************************************************************)
ScanA == <<"/", "a", ".", "M", "p", "3">>
ScanB == <<"/", "b", ".", "t", "x", "t">>
ScanD == <<"/", "d", ".", "o", "g", "g">>
ScanC == ScanD \o <<"/", "c", ".", "w", "a", "v">>
ScanPaths == {ScanA, ScanB, ScanD, ScanC}

ScanTag == Tag(<<>>, <<ArtistX>>, <<AlbumLP>>, <<>>)

\* the steps of get_tracks at which a file may fail
FailSteps == {"stat", "open", "probe"}

\* the music directories: a path below a directory exists with it
ScanDirs ==
  {fs \in [ScanPaths -> {NoFile, <<ScanTag>>, <<Dir(TRUE)>>, <<Dir(FALSE)>>}
                          \cup {<<Failing(k)>> : k \in FailSteps}] :
     /\ ~IsDir(fs[ScanA]) /\ ~IsDir(fs[ScanB]) /\ ~IsDir(fs[ScanC])
     /\ fs[ScanB] \in {NoFile, <<ScanTag>>}
     /\ fs[ScanD] \in {NoFile, <<ScanTag>>, <<Dir(TRUE)>>, <<Dir(FALSE)>>}
     /\ fs[ScanC] \in {NoFile, <<ScanTag>>}
     /\ fs[ScanC] # NoFile => IsDir(fs[ScanD])}

InitScan ==
  /\ StoreIdle
  /\ files \in ScanDirs
  /\ registered = FALSE
  /\ reply = NoRes
  /\ calls = <<>>
  /\ WatcherIdle
  /\ TasksIdle
  /\ FrontIdle

\* FileScanner::scan_directory(root)
CallScanDirectory ==
  /\ \E r \in ScanDirectory(files) :
       reply' = [NoRes EXCEPT !.kind = "scan_directory", !.paths = r]
  /\ UNCHANGED <<svars, wvars, nvars, calls, files, registered, uvars>>

\* LocalMusicProvider::get_tracks
CallGetTracks ==
  /\ \E r \in GetTracks(files) :
       reply' = [NoRes EXCEPT !.kind = "get_tracks", !.tracks = r]
  /\ UNCHANGED <<svars, wvars, nvars, calls, files, registered, uvars>>

NextScan ==
  \/ CallScanDirectory
  \/ CallGetTracks

SpecScan == InitScan /\ [][NextScan]_vars

(***************************************************************************)
(* Searches over a music directory that does not change (SpecSearch).      *)
(***************************************************************************)
\* number of searches that are kept, all of one kind and one query
MaxCalls == 2

TitleExact == <<"l", "p">>
TitlePrefix == <<"L", "P", "s">>
TitleInfix == <<"a", "L", "P">>

\* the tags of the files that are searched
SearchTagSets ==
  { Tag(<<TitleExact>>, <<ArtistX>>, <<>>, <<>>),
    Tag(<<TitlePrefix>>, <<ArtistX>>, <<>>, <<>>),
    Tag(<<TitleInfix>>, <<ArtistX>>, <<>>, <<>>),
    Tag(<<TitleSong>>, <<ArtistX>>, <<>>, <<>>),
    Tag(<<TitleSong>>, <<AlbumLP>>, <<AlbumLP>>, <<>>) }

QueryLP == <<"L", "P">>
QueryTwoWords == <<"x", " ", "l", "p">>
QueryRepeated == <<"l", "p", " ", "l", "p">>
QueryNoMatch == <<"q">>
SearchQueries == {QueryLP, QueryTwoWords, QueryRepeated, QueryNoMatch}

InitSearch ==
  /\ StoreIdle
  /\ files \in [Paths -> {NoFile} \cup {<<g>> : g \in SearchTagSets}]
  /\ registered \in BOOLEAN
  /\ reply = NoRes
  /\ calls = <<>>
  /\ WatcherIdle
  /\ TasksIdle
  /\ FrontIdle

\* the searches that are kept are those of one kind and one query
Keeps(kind, query) ==
  /\ Len(calls) < MaxCalls
  /\ calls # <<>> => calls[1].kind = kind /\ calls[1].query = query

\* the caller gets a result
Returned(r) ==
  /\ reply' = r
  /\ calls' = Append(calls, r)
  /\ UNCHANGED <<svars, wvars, nvars, files, registered, uvars>>

\* LocalMusicProvider::search_tracks(query, limit, offset)
CallSearchTracks(query, limit, offset) ==
  /\ Keeps("search_tracks", query)
  /\ \E r \in ProviderSearchTracks(files, query, limit, offset) :
       Returned([NoRes EXCEPT !.kind = "search_tracks", !.query = query,
                              !.limit = limit, !.offset = offset,
                              !.tracks = r])

\* LocalMusicProvider::search_albums(query, limit, offset)
CallSearchAlbums(query, limit, offset) ==
  /\ Keeps("search_albums", query)
  /\ \E r \in ProviderSearchAlbums(files, query, limit, offset) :
       Returned([NoRes EXCEPT !.kind = "search_albums", !.query = query,
                              !.limit = limit, !.offset = offset,
                              !.albums = r])

\* LocalMusicProvider::search_artists(query, limit, offset)
CallSearchArtists(query, limit, offset) ==
  /\ Keeps("search_artists", query)
  /\ \E r \in ProviderSearchArtists(files, query, limit, offset) :
       Returned([NoRes EXCEPT !.kind = "search_artists", !.query = query,
                              !.limit = limit, !.offset = offset,
                              !.artists = r])

\* ServiceManager::search_all(query, None, limit, offset)
CallSearchAll(query, limit, offset) ==
  /\ Keeps("search_all", query)
  /\ \E r \in ManagerSearchAll(registered, files, query, limit, offset) :
       Returned([NoRes EXCEPT !.kind = "search_all", !.query = query,
                              !.limit = limit, !.offset = offset,
                              !.ok = r.ok, !.tracks = r.tracks,
                              !.albums = r.albums, !.artists = r.artists])

NextSearch ==
  \/ \E q \in SearchQueries, pg \in ProviderPages : CallSearchTracks(q, pg[1], pg[2])
  \/ \E q \in SearchQueries, pg \in ProviderPages : CallSearchAlbums(q, pg[1], pg[2])
  \/ \E q \in SearchQueries, pg \in ProviderPages : CallSearchArtists(q, pg[1], pg[2])
  \/ \E q \in SearchQueries, pg \in ProviderPages : CallSearchAll(q, pg[1], pg[2])

SpecSearch == InitSearch /\ [][NextSearch]_vars

(***************************************************************************)
(* The extractor's tag loop (SpecTags): process_file over the tags of one  *)
(* file, one iteration of its loop per step.                               *)
(***************************************************************************)
MaxTags == 3

DigitChars == <<"0", "1", "2", "3", "4", "5", "6", "7", "8", "9">>

IsDigit(c) == \E i \in 1..10 : DigitChars[i] = c

DigitValue(c) == (CHOOSE i \in 1..10 : DigitChars[i] = c) - 1

RECURSIVE Decimal(_)
Decimal(s) ==
  IF s = <<>> THEN 0
  ELSE 10 * Decimal(SubSeq(s, 1, Len(s) - 1)) + DigitValue(s[Len(s)])

\* str::parse::<u32>().ok(): an optional '+', then one or more digits, the
\* value within 32 bits; None otherwise.  Texts of up to nine digits are
\* modelled (all of them fit); the tags of the model carry no longer one.
ParseU32(s) ==
  LET d == IF s # <<>> /\ s[1] = "+" THEN Tail(s) ELSE s
  IN IF d # <<>> /\ (\A i \in 1..Len(d) : IsDigit(d[i])) /\ Len(d) <= 9
     THEN <<Decimal(d)>>
     ELSE <<>>

\* value.split('-').next(): the text before the first '-'
BeforeDash(s) ==
  IF \E i \in 1..Len(s) : s[i] = "-"
  THEN SubSeq(s, 1, (CHOOSE i \in 1..Len(s) :
                       s[i] = "-" /\ \A j \in 1..(i-1) : s[j] # "-") - 1)
  ELSE s

\* the year of a date tag
ParseYear(s) == ParseU32(BeforeDash(s))

UpperChar(c) ==
  IF \E i \in 1..26 : LowerChars[i] = c
  THEN UpperChars[CHOOSE i \in 1..26 : LowerChars[i] = c]
  ELSE c

\* str::to_uppercase on ASCII text
Upper(s) == [i \in 1..Len(s) |-> UpperChar(s[i])]

\* a tag of the container: its standard key ("None" when the reader gave it
\* none), its key as written in the file, and its value
MetaTag(std_key, key, value) ==
  [std_key |-> std_key, key |-> key, value |-> value]

\* path.file_stem().and_then(to_str).unwrap_or("Unknown")
StemOrUnknown(path) ==
  IF PathToStr(FileStem(path)) = <<>> /\ FileStem(path) # <<>>
  THEN <<"U", "n", "k", "n", "o", "w", "n">>
  ELSE FileStem(path)

\* the fields before the first tag is read
DefaultFields(path) ==
  [title |-> StemOrUnknown(path), artist |-> UnknownArtist,
   album |-> UnknownAlbum, track_number |-> <<>>, disc_number |-> <<>>,
   release_year |-> <<>>, genre |-> <<>>]

\* the arm for tags without one of the seven standard keys: the key is
\* compared in upper case and the field is set only while it holds its default
ApplyRawTag(path, f, tag) ==
  LET k == Upper(tag.key)
  IN CASE k = <<"T","I","T","L","E">> /\ f.title = StemOrUnknown(path) ->
            [f EXCEPT !.title = tag.value]
       [] k = <<"A","R","T","I","S","T">> /\ f.artist = UnknownArtist ->
            [f EXCEPT !.artist = tag.value]
       [] k = <<"A","L","B","U","M">> /\ f.album = UnknownAlbum ->
            [f EXCEPT !.album = tag.value]
       [] k = <<"T","R","A","C","K","N","U","M","B","E","R">>
            /\ f.track_number = <<>> ->
            [f EXCEPT !.track_number = ParseU32(tag.value)]
       [] k = <<"D","I","S","C","N","U","M","B","E","R">>
            /\ f.disc_number = <<>> ->
            [f EXCEPT !.disc_number = ParseU32(tag.value)]
       [] k = <<"D","A","T","E">> /\ f.release_year = <<>> ->
            [f EXCEPT !.release_year = ParseYear(tag.value)]
       [] k = <<"G","E","N","R","E">> /\ f.genre = <<>> ->
            [f EXCEPT !.genre = <<tag.value>>]
       [] OTHER -> f

\* one iteration of `for tag in metadata.tags()`
ApplyTag(path, f, tag) ==
  CASE tag.std_key = "TrackTitle" -> [f EXCEPT !.title = tag.value]
    [] tag.std_key = "Artist" -> [f EXCEPT !.artist = tag.value]
    [] tag.std_key = "Album" -> [f EXCEPT !.album = tag.value]
    [] tag.std_key = "TrackNumber" ->
         [f EXCEPT !.track_number = ParseU32(tag.value)]
    [] tag.std_key = "DiscNumber" ->
         [f EXCEPT !.disc_number = ParseU32(tag.value)]
    [] tag.std_key = "Date" -> [f EXCEPT !.release_year = ParseYear(tag.value)]
    [] tag.std_key = "Genre" -> [f EXCEPT !.genre = <<tag.value>>]
    [] OTHER -> ApplyRawTag(path, f, tag)

\* the file whose tags are read; its stem is "a"
TagPath == PathA

\* the tags a file of the model may carry
MetaTags ==
  { MetaTag("TrackTitle", <<"T","I","T","2">>, FileStem(TagPath)),
    MetaTag("TrackTitle", <<"T","I","T","2">>, TitleSong),
    MetaTag("None", <<"T","i","t","l","e">>, ArtistX),
    MetaTag("Artist", <<"T","P","E","1">>, ArtistX),
    MetaTag("None", <<"a","r","t","i","s","t">>, UnknownArtist),
    MetaTag("None", <<"A","R","T","I","S","T">>, ArtistBX),
    MetaTag("Album", <<"T","A","L","B">>, AlbumLP),
    MetaTag("None", <<"A","l","b","u","m">>, AlbumLPb),
    MetaTag("TrackNumber", <<"T","R","C","K">>, <<"1","/","2">>),
    MetaTag("TrackNumber", <<"T","R","C","K">>, <<"2">>),
    MetaTag("None", <<"T","R","A","C","K","N","U","M","B","E","R">>, <<"3">>),
    MetaTag("DiscNumber", <<"T","P","O","S">>, <<"1">>),
    MetaTag("None", <<"d","i","s","c","n","u","m","b","e","r">>, <<"+","2">>),
    MetaTag("Date", <<"T","D","R","C">>, <<"1","9","9","9","-","0","1">>),
    MetaTag("None", <<"D","A","T","E">>, <<"2","0","0","1">>),
    MetaTag("Genre", <<"T","C","O","N">>, ArtistX),
    MetaTag("None", <<"g","e","n","r","e">>, TitleSong),
    MetaTag("Composer", <<"T","I","T","L","E">>, AlbumLP),
    MetaTag("None", <<"c","o","m","m","e","n","t">>, ArtistX) }

InitTags ==
  /\ StoreIdle
  /\ ProviderIdle
  /\ WatcherIdle
  /\ TasksIdle
  /\ tags \in UNION {[1..n -> MetaTags] : n \in 0..MaxTags}
  /\ taken = 0
  /\ fields = DefaultFields(TagPath)
  /\ SearchViewIdle
  /\ ManagerIdle
  /\ PoolIdle
  /\ PlayerIdle

\* the loop body of process_file for the next tag of the file
ReadTag ==
  /\ taken < Len(tags)
  /\ fields' = ApplyTag(TagPath, fields, tags[taken + 1])
  /\ taken' = taken + 1
  /\ UNCHANGED <<svars, pvars, wvars, nvars, tags, qvars, mvars, lvars, avars>>

NextTags == ReadTag

SpecTags == InitTags /\ [][NextTags]_vars

(***************************************************************************)
(* Properties of the watcher (SpecWatch).                                  *)
(***************************************************************************)
NotBacklog(e) == e.path # PathOld

\* the events of this run that try_receive has returned, in order
GotNew == SelectSeq(got, NotBacklog)

\* the events of this run from the oldest on: returned, in the channel, in a
\* blocked send, scheduled
Stream == SelectSeq(got \o chan \o sending \o idleq, NotBacklog)

\* the paths for which the callback scheduled a send, in order
SentEntries == SelectSeq(hist, LAMBDA h : h.sent)

C16_Expected(kind, exists, path) ==
  IF kind = "create" /\ exists THEN <<FileEvent("Created", path)>>
  ELSE IF kind = "modify" /\ exists THEN <<FileEvent("Modified", path)>>
  ELSE IF kind = "modify" /\ ~exists THEN <<FileEvent("Removed", path)>>
  ELSE IF kind = "remove" THEN <<FileEvent("Removed", path)>>
  ELSE <<>>

\* C16: the event the callback makes for a path is the stated function of
\* the raw kind and of whether the path exists, and a notification the
\* callback is done with has had every one of its paths handled, one event
\* (or none, as the function says) per path.
C16_ClassificationPerPath ==
  /\ \A i \in 1..Len(hist) :
       hist[i].event = C16_Expected(hist[i].kind, hist[i].existed, hist[i].path)
  /\ \A n \in 1..cb.n :
       (n < cb.n \/ cb.k = 0) =>
         \A k \in 1..Len(raws[n].paths) :
           Cardinality({i \in 1..Len(hist) :
                          hist[i].n = n /\ hist[i].path = raws[n].paths[k]}) = 1

\* C17: try_receive returns the events in the order in which the callback
\* made them, each once: what has been returned is the first part of what
\* the callback scheduled, and nothing in flight is lost or doubled.
C17_DeliveredInCallbackOrder ==
  /\ Len(Stream) = Len(SentEntries)
  /\ \A j \in 1..Len(GotNew) :
       /\ j <= Len(SentEntries)
       /\ GotNew[j] = SentEntries[j].event[1]

C17_Witness ==
  /\ Len(GotNew) = 2
  /\ GotNew[1].path = GotNew[2].path
  /\ GotNew[1] # GotNew[2]
  /\ GotNew[1] = SentEntries[1].event[1]
  /\ GotNew[2] = SentEntries[2].event[1]

\* C18: a send that blocks the main-loop thread on the full channel can
\* return: the channel has room, or a try_receive can run and make room.
C18_BlockedSendCanReturn ==
  sending # <<>> => (HasRoom(chan) \/ ENABLED TryReceive)

(***************************************************************************)
(* Properties of the provider and manager queries (SpecProv).              *)
(***************************************************************************)
\* C11: no artist that get_artists, search_artists, search_all or the
\* manager's get_all_artists returns is named 'Unknown Artist', and no album
\* that get_albums, search_albums, search_all or the manager's
\* get_all_albums returns is titled 'Unknown Album'.
C11_NoSentinelSurfaced ==
  /\ \A i \in 1..Len(reply.artists) : reply.artists[i].name # UnknownArtist
  /\ \A i \in 1..Len(reply.albums) : reply.albums[i].title # UnknownAlbum

(***************************************************************************)
(* Properties of the store operations run one at a time (Spec).            *)
(***************************************************************************)
Range(seq) == {seq[i] : i \in 1..Len(seq)}

\* the rows of d.tracks stored for a path
RowsOfPath(d, path) == {r \in d.tracks : r.file_path = PathToStr(path)}

\* C1: an insert_track(t) that directly follows an insert_track(t) of the same
\* track leaves all three tables as the first call left them, with exactly
\* one track row of id t.id.
C1_UpsertTwiceIsUpsertOnce ==
  (last.op = "insert_track" /\ last.again) =>
    /\ db = last.pre
    /\ Cardinality({r \in db.tracks : r.id = last.t.id}) = 1

C1_Witness ==
  /\ last.op = "insert_track"
  /\ last.again
  /\ Cardinality(db.tracks) = 2
  /\ db = last.pre

\* C2: when a track row is the only row of its (album, artist) pair and the
\* only row of its artist, remove_track_by_path on its path leaves no such
\* track row, no album row of that pair and no artist row of that name.
C2_SoleTrackRemovalPrunes ==
  last.op = "remove_track_by_path" =>
    \A r \in RowsOfPath(last.pre, last.path) :
      ( /\ \A o \in last.pre.tracks :
             (o.album = r.album /\ o.artist = r.artist) => o = r
        /\ \A o \in last.pre.tracks : o.artist = r.artist => o = r )
      => /\ \A o \in db.tracks : o.id # r.id
         /\ \A a \in db.albums : ~(a.title = r.album /\ a.artist = r.artist)
         /\ \A a \in db.artists : a.name # r.artist

\* C3: when two track rows share (album, artist), remove_track_by_path on the
\* path of one removes that row only: the other row, the album row and the
\* artist row stay as they were.
C3_SharedAlbumSurvives ==
  last.op = "remove_track_by_path" =>
    \A r \in RowsOfPath(last.pre, last.path) :
      \A o \in last.pre.tracks :
        (o # r /\ o.album = r.album /\ o.artist = r.artist)
        => /\ db.tracks = last.pre.tracks \ {r}
           /\ db.albums = last.pre.albums
           /\ db.artists = last.pre.artists

\* C4: every album row is referenced by a track row of that album and artist,
\* and every artist row by a track row of that artist.
C4_NoOrphanRows ==
  /\ \A a \in db.albums :
       \E r \in db.tracks : r.album = a.title /\ r.artist = a.artist
  /\ \A a \in db.artists : \E r \in db.tracks : r.artist = a.name

\* C5: batch_insert_tracks is all-or-nothing: after a failed call the three
\* tables are as before the call, after a successful one every track of the
\* batch has its row.
C5_BatchAllOrNothing ==
  last.op = "batch_insert_tracks" =>
    /\ ~last.ok => db = last.pre
    /\ last.ok => \A t \in Range(last.ts) : \E r \in db.tracks : r.id = t.id

\* C8: the catalog holds at most one track row per source path.
C8_OneRowPerPath ==
  \A r1, r2 \in db.tracks : r1.file_path = r2.file_path => r1 = r2

\* C9: get_all_albums returns exactly one album for every (album, artist)
\* pair with a resolved album title that occurs among the track rows.
C9_OneAlbumPerPair ==
  \A r \in db.tracks :
    r.album # UnknownAlbum =>
      Cardinality({a \in GetAllAlbums(db) :
                     a.title = r.album /\ a.artist = r.artist}) = 1

\* the artist rows and album rows a read of the store may return
ReturnedArtists(d) ==
  GetAllArtists(d) \cup
  UNION {Range(res) : res \in UNION {SearchArtists(d, q, l, o) :
                                       q \in Queries, l \in Limits, o \in Offsets}}

ReturnedAlbums(d) ==
  GetAllAlbums(d) \cup
  UNION {Range(res) : res \in UNION {SearchAlbums(d, q, l, o) :
                                       q \in Queries, l \in Limits, o \in Offsets}}

\* C10 as claimed: a track with a sentinel artist or album is in
\* get_all_tracks, and no read returns the artist row of its artist or the
\* album row of its (album, artist) pair.
C10_Original ==
  \A r \in db.tracks :
    (r.artist = UnknownArtist \/ r.album = UnknownAlbum) =>
      /\ r \in GetAllTracks(db)
      /\ \A a \in ReturnedArtists(db) : a.name # r.artist
      /\ \A a \in ReturnedAlbums(db) : ~(a.title = r.album /\ a.artist = r.artist)

\* C10 as amended: a track with a sentinel artist or album is in
\* get_all_tracks; no read returns an artist row named 'Unknown Artist' or an
\* album row titled 'Unknown Album'.
C10_SentinelRowsHidden ==
  /\ \A r \in db.tracks :
       (r.artist = UnknownArtist \/ r.album = UnknownAlbum) => r \in GetAllTracks(db)
  /\ \A a \in ReturnedArtists(db) : a.name # UnknownArtist
  /\ \A a \in ReturnedAlbums(db) : a.title # UnknownAlbum

C10_Witness ==
  /\ \E r \in GetAllTracks(db) : r.artist = UnknownArtist /\ r.album = UnknownAlbum
  /\ \E a \in db.artists : a.name = UnknownArtist
  /\ \E a \in db.albums : a.title = UnknownAlbum
  /\ \E a \in SearchArtistsRows(db, <<"x">>) : a.name = ArtistX
  /\ SearchArtistsRows(db, <<"u", "n">>) = {}

\* C12: remove_track_by_path on a path that no track row is stored for
\* returns Ok and leaves the three tables as they were.
C12_RemoveUnknownPathIsNoOp ==
  (last.op = "remove_track_by_path" /\ RowsOfPath(last.pre, last.path) = {}) =>
    /\ last.ok
    /\ db = last.pre

C12_Witness ==
  /\ last.op = "remove_track_by_path"
  /\ RowsOfPath(last.pre, last.path) = {}
  /\ last.pre.tracks # {}
  /\ \E a \in last.pre.albums :
       \A r \in last.pre.tracks : ~(r.album = a.title /\ r.artist = a.artist)
  /\ db = last.pre

\* C13: insert_track and batch_insert_tracks leave every album row and every
\* artist row that existed before the call as it was (same id, title or
\* name, artist and year), also when the track names that album or artist.
C13_ExistingRowsUntouched ==
  last.op \in {"insert_track", "batch_insert_tracks"} =>
    /\ last.pre.albums \subseteq db.albums
    /\ last.pre.artists \subseteq db.artists

C13_Witness ==
  /\ last.op = "insert_track"
  /\ \E a \in last.pre.albums :
       /\ a.title = last.t.album
       /\ a.artist = last.t.artist
       /\ a.year # last.t.release_year
       /\ a \in db.albums
  /\ \E a \in last.pre.artists : a.name = last.t.artist /\ a \in db.artists

\* C14: cleanup_database returns Ok, and afterwards the track rows are the
\* rows from before whose file exists.
C14_CleanupKeepsExistingOnly ==
  last.op = "cleanup_database" =>
    /\ last.ok
    /\ db.tracks = {r \in last.pre.tracks :
                      r.file_path \in {PathToStr(p) : p \in last.exists}}

(***************************************************************************)
(* Properties of the store operations run concurrently (SpecConc).         *)
(***************************************************************************)
\* the tables a call may leave when it runs alone on the tables d
SeqOutcomes(d, call) ==
  CASE call.kind = "insert_track" -> {InsertTrack(d, call.t)}
    [] call.kind = "batch_insert_tracks" ->
         {BatchInsertTracks(d, call.ts, o).db : o \in RollbackOutcomes}
    [] call.kind = "remove_track_by_path" ->
         {RemoveTrackByPath(d, call.path, info) : info \in TrackInfos(d, call.path)}
    [] OTHER -> {d}

\* the tables after call c1 and then call c2, each run alone
SerialOutcomes(d, c1, c2) ==
  UNION {SeqOutcomes(d1, c2) : d1 \in SeqOutcomes(d, c1)}

RECURSIVE InsertAll(_, _)
InsertAll(d, ts) ==
  IF ts = <<>> THEN d ELSE InsertAll(InsertTrack(d, Head(ts)), Tail(ts))

\* the rows a batch adds to a table
BatchNewRows(b, what) ==
  LET full == InsertAll(b.pre, b.ts)
  IN CASE what = "tracks" -> full.tracks \ b.pre.tracks
       [] what = "albums" -> full.albums \ b.pre.albums
       [] what = "artists" -> full.artists \ b.pre.artists
       [] OTHER -> {}

\* C6: a get_all_tracks, get_all_albums or get_all_artists that runs while a
\* batch_insert_tracks has not committed returns none of the rows that batch
\* adds.
C6_NoRowOfUncommittedBatch ==
  \A b \in obs.during : obs.rows \cap BatchNewRows(b, obs.what) = {}

\* C7: when two store operations that ran concurrently have both returned
\* Ok, the tables are those of one of the two serial orders.
C7_ConcurrentWritesSerializable ==
  ( /\ \A p \in Procs : procs[p].state = "done" /\ procs[p].ok
    /\ \A p \in Procs : procs[p].call.kind \in {"insert_track", "remove_track_by_path"} )
  => db \in SerialOutcomes(start, procs[1].call, procs[2].call)
            \cup SerialOutcomes(start, procs[2].call, procs[1].call)

(***************************************************************************)
(* Properties of the running provider (SpecSync).                          *)
(***************************************************************************)
HasRow(p) == \E r \in db.tracks : r.file_path = PathToStr(p)

\* the events for p the consumer has taken, and those it did not skip
EventsFor(p) == {i \in 1..Len(got) : got[i].path = p}
AppliedFor(p) == {i \in EventsFor(p) : outcomes[i] # "skipped"}

Latest(idx) == CHOOSE i \in idx : \A j \in idx : j <= i

\* nothing is on its way from the file system to the consumer
Quiet ==
  /\ chan = <<>>
  /\ idleq = <<>>
  /\ sending = <<>>
  /\ cb.k = 0
  /\ cb.n = Len(raws) \/ ~alive

\* the n-th event of the channel is taken once it is queued
EveryQueuedEventConsumed ==
  \A n \in 1..(2 * MaxRaw) :
    (Len(got) + Len(chan) >= n) ~> (Len(got) >= n)

\* every event the consumer took was applied as its kind demands
AppliedAsItsKind ==
  /\ Len(outcomes) = Len(got)
  /\ \A i \in 1..Len(got) :
       IF got[i].kind = "Removed" THEN outcomes[i] = "deleted"
       ELSE outcomes[i] \in {"upserted", "skipped"}

\* C19 as stated: every queued event is eventually consumed and applied, and
\* once nothing is left to consume, a path that had events has a track row
\* exactly when its last event was a Created or Modified whose extraction
\* succeeded.
C19_Original ==
  /\ EveryQueuedEventConsumed
  /\ [](AppliedAsItsKind /\
        (Quiet =>
           \A p \in Paths :
             EventsFor(p) # {} =>
               (HasRow(p) <=> outcomes[Latest(EventsFor(p))] = "upserted")))

\* C19, amended: every queued event is eventually consumed and applied as
\* its kind demands, a failed extraction leaving the catalog as it was; at
\* every moment a path has a track row exactly when the last of its events
\* that was not skipped was a Created or Modified, or, when it has no such
\* event, when the initial scan indexed it.
C19_LastAppliedEventDecidesRow ==
  /\ EveryQueuedEventConsumed
  /\ [](AppliedAsItsKind /\
        \A p \in Paths :
          HasRow(p) <=>
            IF AppliedFor(p) = {} THEN p = PathA
            ELSE outcomes[Latest(AppliedFor(p))] = "upserted")

\* a Modified of an indexed path was skipped for a failed extraction, after
\* which a Created of another path was upserted and a Removed applied
C19_Witness ==
  /\ chan = <<>>
  /\ \E i \in 1..Len(got) :
       /\ got[i].kind = "Modified"
       /\ outcomes[i] = "skipped"
       /\ HasRow(got[i].path)
  /\ \E i \in 1..Len(got) : outcomes[i] = "upserted"
  /\ \E i \in 1..Len(got) : outcomes[i] = "deleted"

(***************************************************************************)
(* Properties of rescans (SpecRescan).                                     *)
(***************************************************************************)
CatalogRows(what, d) ==
  CASE what = "tracks" -> GetAllTracks(d)
    [] what = "albums" -> GetAllAlbums(d)
    [] what = "artists" -> GetAllArtists(d)
    [] OTHER -> {}

ReadableTracks ==
  {GetTracksTrack(p, files[p][1]) :
     p \in {q \in ScanPaths : Walked(files, q) /\ IsMusicFile(q) /\ Probes(files[q])}}

\* C28: get_tracks returns one track for each scanned file that it can
\* stat, open and probe, and none for a file that fails at one of these
\* steps, however many of the files fail.
C28_FailedFilesAreSkipped ==
  reply.kind = "get_tracks" =>
    /\ Range(reply.tracks) = ReadableTracks
    /\ Len(reply.tracks) = Cardinality(ReadableTracks)

\* a scan in which one file failed and another gave its track
C28_Witness ==
  /\ reply.kind = "get_tracks"
  /\ \E k \in FailSteps : files[ScanA] = <<Failing(k)>>
  /\ files[ScanD] = <<Dir(TRUE)>>
  /\ Len(reply.tracks) = 1
  /\ reply.tracks[1].path = ScanC

\* C29: scan_directory returns exactly the files under the root whose
\* extension is, case ignored, one of mp3, flac, m4a, ogg and wav, each
\* once, and skips what it cannot read.
C29_ScanReturnsMusicFilesOnly ==
  reply.kind = "scan_directory" =>
    /\ Range(reply.paths) =
         {p \in ScanPaths : Walked(files, p) /\ IsFile(files[p]) /\ IsMusicFile(p)}
    /\ \A i, j \in 1..Len(reply.paths) : reply.paths[i] = reply.paths[j] => i = j

(***************************************************************************)
(* Properties of the searches (SpecSearch).                                *)
(***************************************************************************)
\* the candidates of a search: the tracks, albums and artists of the files
CatalogTracks == UNION {Range(ts) : ts \in GetTracks(files)}
CatalogAlbums == UNION {AlbumsMap(ts) : ts \in GetTracks(files)}
CatalogArtists == UNION {ArtistsMap(ts) : ts \in GetTracks(files)}

Words(q) == SplitWhitespace(Lower(q))
SingleWord(q) == Words(q) = <<Lower(q)>>

\* what a reply holds, the tracks of search_all taken out of their wrapping
ReplyTracks(r) ==
  IF r.kind = "search_all" THEN [i \in 1..Len(r.tracks) |-> r.tracks[i].track]
  ELSE r.tracks

SearchKinds == {"search_tracks", "search_albums", "search_artists", "search_all"}
SearchesTracks(r) ==
  r.kind = "search_tracks" \/ (r.kind = "search_all" /\ registered)
SearchesAlbums(r) ==
  r.kind = "search_albums" \/ (r.kind = "search_all" /\ registered)
SearchesArtists(r) ==
  r.kind = "search_artists" \/ (r.kind = "search_all" /\ registered)

\* the page holds every candidate: there are at most two
Unpaginated(r) == r.offset = 0 /\ r.limit >= Cardinality(Paths)

\* no field of the track matches the word, not even loosely
NoFieldMatches(t, w) ==
  /\ FuzzyMatch(t.title, w) = <<>>
  /\ FuzzyMatch(t.artist, w) = <<>>
  /\ FuzzyMatch(t.album, w) = <<>>

\* 3: the title is the query; 2: it starts with it; 1: it contains it; 0: not
TitleClass(t, q) ==
  IF Lower(t.title) = Lower(q) THEN 3
  ELSE IF StartsWith(Lower(t.title), Lower(q)) THEN 2
  ELSE IF Contains(Lower(t.title), Lower(q)) THEN 1
  ELSE 0

\* a and b differ in their titles only, a's matching the query better than
\* b's, which either matches too or belongs to a track that has no match
BetterTitle(a, b, q) ==
  /\ a.artist = b.artist
  /\ a.album = b.album
  /\ TitleClass(a, q) > TitleClass(b, q)
  /\ TitleClass(b, q) = 0 => NoFieldMatches(b, Lower(q))

\* C21: for a single-word query and tracks that differ in title only, a
\* title equal to the query scores above one it is a proper prefix of, that
\* above one that only contains it, that above no match, by the provider's
\* score and by the two scores of the window; and a track without any match
\* is not in the result.
C21_RankingStrictlyMonotone ==
  (reply.kind = "search_tracks" /\ SingleWord(reply.query)) =>
    /\ \A a, b \in CatalogTracks :
         BetterTitle(a, b, reply.query) =>
           /\ ScoreTrack(a, reply.query) > ScoreTrack(b, reply.query)
           /\ DisplayScoreTrack(a, reply.query) > DisplayScoreTrack(b, reply.query)
           /\ CalculateMatchScore(Lower(a.title), Lower(reply.query))
                > CalculateMatchScore(Lower(b.title), Lower(reply.query))
    /\ \A b \in CatalogTracks :
         NoFieldMatches(b, Lower(reply.query)) => b \notin Range(reply.tracks)

\* C22: a candidate without a matched signal and with a score of zero is in
\* no search result, and a candidate with a positive score is in the result
\* that is not cut by its page.
C22_ZeroScoreExcluded ==
  /\ SearchesTracks(reply) =>
       \A t \in CatalogTracks :
         /\ (ScoreTrack(t, reply.query) = 0
              /\ MatchedWords(t, Words(reply.query)) = 0)
              => t \notin Range(ReplyTracks(reply))
         /\ (Unpaginated(reply) /\ ScoreTrack(t, reply.query) > 0)
              => t \in Range(ReplyTracks(reply))
  /\ SearchesAlbums(reply) =>
       \A a \in CatalogAlbums :
         /\ ScoreAlbumMatch(a.title, a.artist, reply.query) = 0
              => a \notin Range(reply.albums)
         /\ (Unpaginated(reply)
              /\ ScoreAlbumMatch(a.title, a.artist, reply.query) > 0)
              => a \in Range(reply.albums)
  /\ SearchesArtists(reply) =>
       \A a \in CatalogArtists :
         /\ ScoreArtistMatch(a.name, reply.query) = 0
              => a \notin Range(reply.artists)
         /\ (Unpaginated(reply) /\ ScoreArtistMatch(a.name, reply.query) > 0)
              => a \in Range(reply.artists)

\* a search_all of a registered provider over two files, one of which has a
\* positive score and is returned, the other no match and is left out
C22_Witness ==
  /\ reply.kind = "search_all"
  /\ registered
  /\ Unpaginated(reply)
  /\ Len(reply.tracks) = 1
  /\ Cardinality(CatalogTracks) = 2
  /\ \E t \in CatalogTracks :
       /\ ScoreTrack(t, reply.query) = 0
       /\ t \notin Range(ReplyTracks(reply))

\* the orders of the scored candidates with the scores descending
Rankings(scored) ==
  {s \in Perms(scored) : \A i, j \in 1..Len(s) : i < j => s[i].score >= s[j].score}

Ranked(cands, Score(_)) ==
  Rankings({e \in {[score |-> Score(c), item |-> c] : c \in cands} : e.score > 0})

IsPageOf(result, rankings, r) ==
  \E s \in rankings : result = SkipTake(Items(s), r.offset, r.limit)

C24_PagesTileTheRanking ==
  \A i, j \in 1..Len(calls) :
    ( /\ calls[i].kind = "search_tracks"
      /\ calls[j].kind = "search_tracks"
      /\ calls[j].query = calls[i].query
      /\ calls[j].limit = calls[i].limit
      /\ calls[j].offset = calls[i].offset + calls[i].limit )
    => /\ Range(calls[i].tracks) \cap Range(calls[j].tracks) = {}
       /\ \A k \in 1..Len(calls) :
            ( /\ calls[k].kind = "search_tracks"
              /\ calls[k].query = calls[i].query
              /\ calls[k].limit = 2 * calls[i].limit
              /\ calls[k].offset = calls[i].offset )
            => calls[i].tracks \o calls[j].tracks = calls[k].tracks

\* C25: two searches of the same kind with the same query, limit and offset
\* over the same music directory return the same sequence.
C25_OrderIsDeterministic ==
  \A i, j \in 1..Len(calls) :
    ( /\ calls[i].kind = calls[j].kind
      /\ calls[i].kind # "search_all"
      /\ calls[i].query = calls[j].query
      /\ calls[i].limit = calls[j].limit
      /\ calls[i].offset = calls[j].offset )
    => /\ calls[i].tracks = calls[j].tracks
       /\ calls[i].albums = calls[j].albums
       /\ calls[i].artists = calls[j].artists

\* the track matches a query word in its title; or in its artist or album
\* and not, even loosely, in its title
PrimaryMatch(t, q) ==
  \E i \in 1..Len(Words(q)) : Contains(Lower(t.title), Words(q)[i])
SecondaryOnly(t, q) ==
  /\ \A i \in 1..Len(Words(q)) : FuzzyMatch(t.title, Words(q)[i]) = <<>>
  /\ \E i \in 1..Len(Words(q)) :
       \/ Contains(Lower(t.artist), Words(q)[i])
       \/ Contains(Lower(t.album), Words(q)[i])

\* C26: a track whose title matches the query scores above a track that
\* matches in artist or album only, by the provider's score and, for a
\* single-word query, by the window's; an album whose title matches scores
\* above one that matches in its artist only.
C26_PrimaryOutweighsSecondary ==
  /\ reply.kind = "search_tracks" =>
       \A a, b \in CatalogTracks :
         (PrimaryMatch(a, reply.query) /\ SecondaryOnly(b, reply.query)) =>
           /\ ScoreTrack(a, reply.query) > ScoreTrack(b, reply.query)
           /\ SingleWord(reply.query) =>
                DisplayScoreTrack(a, reply.query) > DisplayScoreTrack(b, reply.query)
  /\ reply.kind = "search_albums" =>
       \A a, b \in CatalogAlbums :
         ( /\ Contains(Lower(a.title), Lower(reply.query))
           /\ FuzzyMatch(b.title, Lower(reply.query)) = <<>>
           /\ Contains(Lower(b.artist), Lower(reply.query)) ) =>
           ScoreAlbumMatch(a.title, a.artist, reply.query)
             > ScoreAlbumMatch(b.title, b.artist, reply.query)

\* nothing can match: no file, no provider, or no field that matches the
\* query or one of its words
NothingMatches(r) ==
  \/ CatalogTracks = {}
  \/ r.kind = "search_all" /\ ~registered
  \/ \A t \in CatalogTracks :
       /\ NoFieldMatches(t, Lower(r.query))
       /\ \A i \in 1..Len(Words(r.query)) : NoFieldMatches(t, Words(r.query)[i])

C30_BonusCountsDistinctWords ==
  reply.kind = "search_tracks" =>
    \A t \in CatalogTracks :
      ScoreTrack(t, reply.query) =
        SumWordScores(t, Words(reply.query))
          + 1000 * Cardinality({w \in Range(Words(reply.query)) : WordMatches(t, w)})

(***************************************************************************)
(* The search view (SpecView): the changed handler of the search entry,   *)
(* the search task it spawns and the render task that task spawns, all on  *)
(* the main context.                                                       *)
(***************************************************************************)
MaxEdits == 3

QueryZ == <<"z">>

\* the texts typed into the entry
ViewQueries == {<<>>, QueryLP, <<"L">>, QueryZ}

\* what search_all returns for a query: the query it answers and whether any
\* of its three lists is non-empty
ViewResults(query) == [query |-> query, any |-> query # QueryZ]

SearchTask(version, query, at) ==
  [version |-> version, query |-> query, at |-> at]

\* handle.abort(): the task, if still alive, is dropped where it waits
Abort(ts, h) == {t \in ts : t.version # h}

InitView ==
  /\ StoreIdle
  /\ ProviderIdle
  /\ WatcherIdle
  /\ TasksIdle
  /\ ExtractorIdle
  /\ SearchViewIdle
  /\ ManagerIdle
  /\ PoolIdle
  /\ PlayerIdle

\* connect_changed: the entry's text became `query`
Changed(query) ==
  /\ search_version < MaxEdits
  /\ query # entry_text
  /\ entry_text' = query
  /\ search_version' = search_version + 1
  /\ IF query = <<>>
     THEN /\ page' = "empty_search_page"
          /\ UNCHANGED <<handle, tasks>>
     ELSE /\ page' = "search_results_scroll"
          /\ tasks' = Abort(tasks, handle)
                        \cup {SearchTask(search_version + 1, query, "timeout")}
          /\ handle' = search_version + 1
  /\ UNCHANGED <<svars, pvars, wvars, nvars, evars, mvars, lvars, avars, renders, shown, rendered>>

\* the search task after its 300 ms: it ends if a later edit was made, and
\* otherwise starts the manager's search_all
TimeoutElapsed(t) ==
  /\ t \in tasks
  /\ t.at = "timeout"
  /\ tasks' = IF search_version # t.version
              THEN tasks \ {t}
              ELSE (tasks \ {t}) \cup {SearchTask(t.version, t.query, "search")}
  /\ UNCHANGED <<svars, pvars, wvars, nvars, evars, mvars, lvars, avars, entry_text, search_version,
                 handle, renders, page, shown, rendered>>

\* the search task when search_all has returned Ok(results): it ends if a
\* later edit was made, and otherwise spawns the render task
SearchReturned(t) ==
  /\ t \in tasks
  /\ t.at = "search"
  /\ tasks' = tasks \ {t}
  /\ renders' = IF search_version # t.version
                THEN renders
                ELSE Append(renders, [version |-> t.version,
                                      results |-> ViewResults(t.query)])
  /\ UNCHANGED <<svars, pvars, wvars, nvars, evars, mvars, lvars, avars, entry_text, search_version,
                 handle, page, shown, rendered>>

\* the render task: update_search_results(this, &results, &query)
UpdateSearchResults ==
  /\ renders # <<>>
  /\ LET r == Head(renders)
     IN /\ rendered' = <<[version |-> r.version, current |-> search_version]>>
        /\ IF ~r.results.any
           THEN /\ page' = "no_results_page"
                /\ UNCHANGED shown
           ELSE /\ page' = "search_results_scroll"
                /\ shown' = r.results.query
  /\ renders' = Tail(renders)
  /\ UNCHANGED <<svars, pvars, wvars, nvars, evars, mvars, lvars, avars, entry_text, search_version,
                 handle, tasks>>

NextView ==
  \/ \E q \in ViewQueries : Changed(q)
  \/ \E t \in tasks : TimeoutElapsed(t)
  \/ \E t \in tasks : SearchReturned(t)
  \/ UpdateSearchResults

SpecView == InitView /\ [][NextView]_vars

(***************************************************************************)
(* The service manager over any providers (SpecMgr).  A provider is what   *)
(* its four calls return: Ok(list) or Err.                                 *)
(***************************************************************************)
OkRes(v) == [ok |-> TRUE, v |-> v]
ErrRes == [ok |-> FALSE, v |-> <<>>]

ProviderNames == {"local", "remote"}

ArtistLowerX == [id |-> <<"x">>, name |-> <<"x">>]
ArtistUpperX == ArtistOf(TrackA)
AlbumA == AlbumOf(TrackA)
AlbumLower == [AlbumA EXCEPT !.artist = <<"x">>]

\* PlayableItem { track, provider, added_at }, the time left out
PlayableItem(track, provider) == [track |-> track, provider |-> provider]

\* Ok(SearchResults { tracks, albums, artists })
SearchResults(tracks, albums, artists) ==
  [tracks |-> tracks, albums |-> albums, artists |-> artists]

\* the providers of the model; a provider labels the tracks of its search_all
\* with its own name, as LocalMusicProvider does
ProviderLibs(name) ==
  [tracks : {ErrRes, OkRes(<<>>), OkRes(<<TrackA>>), OkRes(<<TrackA, TrackB>>)},
   artists : {ErrRes, OkRes(<<ArtistUpperX>>),
              OkRes(<<ArtistLowerX, ArtistUpperX>>)},
   albums : {ErrRes, OkRes(<<AlbumA>>), OkRes(<<AlbumLower, AlbumA>>)},
   search : {ErrRes, OkRes(SearchResults(<<>>, <<>>, <<>>)),
             OkRes(SearchResults(<<PlayableItem(TrackA, name)>>, <<AlbumA>>,
                                 <<ArtistUpperX>>))}]

\* providers.iter(): a HashMap yields its entries in an order of its own
IterOrders(provs) == Perms(DOMAIN provs)

\* the Ok lists of one call, appended in iteration order; an Err is logged
\* and skipped
RECURSIVE Extend(_, _, _)
Extend(provs, order, what) ==
  IF order = <<>> THEN <<>>
  ELSE (IF provs[Head(order)][what].ok
        THEN provs[Head(order)][what].v
        ELSE <<>>)
       \o Extend(provs, Tail(order), what)

\* a get_all_tracks that gives up at the first provider that fails
RECURSIVE ExtendTracks_StopAtErr(_, _)
ExtendTracks_StopAtErr(provs, order) ==
  IF order = <<>> \/ ~provs[Head(order)].tracks.ok THEN <<>>
  ELSE [i \in 1..Len(provs[Head(order)].tracks.v) |->
          PlayableItem(provs[Head(order)].tracks.v[i], Head(order))]
       \o ExtendTracks_StopAtErr(provs, Tail(order))

\* get_all_tracks: each track wrapped with the name its provider has in the map
RECURSIVE ExtendTracks(_, _)
ExtendTracks(provs, order) ==
  IF order = <<>> THEN <<>>
  ELSE (IF provs[Head(order)].tracks.ok
        THEN [i \in 1..Len(provs[Head(order)].tracks.v) |->
                PlayableItem(provs[Head(order)].tracks.v[i], Head(order))]
        ELSE <<>>)
       \o ExtendTracks(provs, Tail(order))

\* search_all: the three lists of every Ok result, appended
RECURSIVE ExtendSearch(_, _, _)
ExtendSearch(provs, order, list) ==
  IF order = <<>> THEN <<>>
  ELSE (IF provs[Head(order)].search.ok
        THEN provs[Head(order)].search.v[list]
        ELSE <<>>)
       \o ExtendSearch(provs, Tail(order), list)

\* ServiceManager::get_all_tracks
MgrGetAllTracks(provs) == {ExtendTracks(provs, o) : o \in IterOrders(provs)}

\* ServiceManager::get_all_artists
MgrGetAllArtists(provs) ==
  {DedupArtists(<<>>, SortArtistsByName(Extend(provs, o, "artists"))) :
     o \in IterOrders(provs)}

\* ServiceManager::get_all_albums
MgrGetAllAlbums(provs) ==
  {DedupAlbums(<<>>, SortAlbumsByKey(Extend(provs, o, "albums"))) :
     o \in IterOrders(provs)}

\* ServiceManager::search_all
MgrSearchAll(provs) ==
  {SearchResults(ExtendSearch(provs, o, "tracks"),
                 ExtendSearch(provs, o, "albums"),
                 ExtendSearch(provs, o, "artists")) : o \in IterOrders(provs)}

InitMgr ==
  /\ StoreIdle
  /\ ProviderIdle
  /\ WatcherIdle
  /\ TasksIdle
  /\ ExtractorIdle
  /\ SearchViewIdle
  /\ ManagerIdle
  /\ PoolIdle
  /\ PlayerIdle

\* register_provider(name, provider): providers.insert(name, provider)
MgrRegister(name, lib) ==
  /\ name \notin DOMAIN providers
  /\ providers' = [n \in DOMAIN providers \cup {name} |->
                     IF n = name THEN lib ELSE providers[n]]
  /\ reply' = NoRes
  /\ UNCHANGED <<svars, files, registered, calls, wvars, nvars, evars, qvars,
                 lvars, avars>>

CallGetAllTracks ==
  /\ \E r \in MgrGetAllTracks(providers) :
       reply' = [NoRes EXCEPT !.kind = "get_all_tracks", !.tracks = r]
  /\ UNCHANGED <<svars, files, registered, calls, wvars, nvars, uvars>>

CallGetAllArtists ==
  /\ \E r \in MgrGetAllArtists(providers) :
       reply' = [NoRes EXCEPT !.kind = "get_all_artists", !.artists = r]
  /\ UNCHANGED <<svars, files, registered, calls, wvars, nvars, uvars>>

CallGetAllAlbums ==
  /\ \E r \in MgrGetAllAlbums(providers) :
       reply' = [NoRes EXCEPT !.kind = "get_all_albums", !.albums = r]
  /\ UNCHANGED <<svars, files, registered, calls, wvars, nvars, uvars>>

CallMgrSearchAll ==
  /\ \E r \in MgrSearchAll(providers) :
       reply' = [NoRes EXCEPT !.kind = "manager_search_all",
                            !.tracks = r.tracks, !.albums = r.albums,
                            !.artists = r.artists]
  /\ UNCHANGED <<svars, files, registered, calls, wvars, nvars, uvars>>

NextMgr ==
  \/ \E n \in ProviderNames : \E lib \in ProviderLibs(n) : MgrRegister(n, lib)
  \/ CallGetAllTracks
  \/ CallGetAllArtists
  \/ CallGetAllAlbums
  \/ CallMgrSearchAll

SpecMgr == InitMgr /\ [][NextMgr]_vars

(***************************************************************************)
(* The connection pool (SpecPool): threads that run store operations, each *)
(* taking its connections from the pool of four.                           *)
(***************************************************************************)
PoolSize == 4

MaxThreads == 4

Threads == 1..MaxThreads

\* the operations by the connections they take: insert_track and
\* remove_track_by_path hold one at a time; batch_insert_tracks and
\* cleanup_database hold theirs while an inner call takes another
PoolOps ==
  {"insert_track", "remove_track_by_path", "batch_insert_tracks",
   "cleanup_database"}

Nested(op) == op \in {"batch_insert_tracks", "cleanup_database"}

PoolThread(op, at, held) == [op |-> op, at |-> at, held |-> held]

ThreadIdle == PoolThread("none", "idle", 0)

RECURSIVE SumHeld(_, _)
SumHeld(pl, ts) ==
  IF ts = {} THEN 0
  ELSE LET t == CHOOSE x \in ts : TRUE
       IN pl[t].held + SumHeld(pl, ts \ {t})

\* the connections checked out of the pool
InUse == SumHeld(pool, Threads)

InitPool ==
  /\ StoreIdle
  /\ ProviderIdle
  /\ WatcherIdle
  /\ TasksIdle
  /\ ExtractorIdle
  /\ SearchViewIdle
  /\ ManagerIdle
  /\ pool = [t \in Threads |-> ThreadIdle]
  /\ PlayerIdle

\* a thread calls a store operation, which starts with self.pool.get()
PoolCall(t, op) ==
  /\ pool[t].at = "idle"
  /\ pool' = [pool EXCEPT ![t] = PoolThread(op, "get", 0)]
  /\ UNCHANGED <<svars, pvars, wvars, nvars, evars, qvars, mvars, avars>>

\* self.pool.get() returns a connection: one is idle, or the pool holds
\* fewer than max_size and opens one
PoolGet(t) ==
  /\ pool[t].at = "get"
  /\ InUse < PoolSize
  /\ pool' = [pool EXCEPT ![t] = PoolThread(@.op, "run", @.held + 1)]
  /\ UNCHANGED <<svars, pvars, wvars, nvars, evars, qvars, mvars, avars>>

\* self.pool.get() returns Err: no connection came back within the pool's
\* connection_timeout.  The `?` returns the error through the operation and
\* the connections the thread held are dropped, back into the pool.
PoolGetTimesOut(t) ==
  /\ pool[t].at = "get"
  /\ InUse = PoolSize
  /\ pool' = [pool EXCEPT ![t] = PoolThread(@.op, "failed", 0)]
  /\ UNCHANGED <<svars, pvars, wvars, nvars, evars, qvars, mvars, avars>>

\* inside its open transaction, batch_insert_tracks calls ensure_artist or
\* ensure_album, and cleanup_database calls remove_track_by_path: the inner
\* call starts with self.pool.get()
PoolInnerCall(t) ==
  /\ pool[t].at = "run"
  /\ pool[t].held = 1
  /\ Nested(pool[t].op)
  /\ pool' = [pool EXCEPT ![t] = PoolThread(@.op, "get", 1)]
  /\ UNCHANGED <<svars, pvars, wvars, nvars, evars, qvars, mvars, avars>>

\* the inner call returns and its connection goes back to the pool
PoolInnerReturn(t) ==
  /\ pool[t].at = "run"
  /\ pool[t].held = 2
  /\ pool' = [pool EXCEPT ![t] = PoolThread(@.op, "run", 1)]
  /\ UNCHANGED <<svars, pvars, wvars, nvars, evars, qvars, mvars, avars>>

\* the operation returns and its connection goes back to the pool
PoolReturn(t) ==
  /\ pool[t].at = "run"
  /\ pool[t].held = 1
  /\ pool' = [pool EXCEPT ![t] = PoolThread(@.op, "done", 0)]
  /\ UNCHANGED <<svars, pvars, wvars, nvars, evars, qvars, mvars, avars>>

\* the thread is free for its next call
PoolNext(t) ==
  /\ pool[t].at \in {"done", "failed"}
  /\ pool' = [pool EXCEPT ![t] = ThreadIdle]
  /\ UNCHANGED <<svars, pvars, wvars, nvars, evars, qvars, mvars, avars>>

NextPool ==
  \/ \E t \in Threads, op \in PoolOps : PoolCall(t, op)
  \/ \E t \in Threads : PoolGet(t)
  \/ \E t \in Threads : PoolGetTimesOut(t)
  \/ \E t \in Threads : PoolInnerCall(t)
  \/ \E t \in Threads : PoolInnerReturn(t)
  \/ \E t \in Threads : PoolReturn(t)
  \/ \E t \in Threads : PoolNext(t)

SpecPool == InitPool /\ [][NextPool]_vars

(***************************************************************************)
(* The playback queue (SpecPlay): load_queue, next and previous of the     *)
(* AudioPlayer over its Queue.                                             *)
(***************************************************************************)
MaxQueue == 3

ItemA == PlayableItem(TrackA, "local")
ItemB == PlayableItem(TrackB, "local")

\* the queues given to load_queue
Queues == UNION {[1..n -> {ItemA, ItemB}] : n \in 0..MaxQueue}

\* the outcome of indexing a Vec past its end
Panicked == [panicked |-> TRUE]

\* Queue::current_track: self.current_index.map(|idx| &self.tracks[idx].track);
\* indexing past the end panics
CurrentTrack(q) ==
  IF q.current_index = <<>> THEN <<>>
  ELSE IF q.current_index[1] < Len(q.tracks)
       THEN <<q.tracks[q.current_index[1] + 1].track>>
       ELSE <<Panicked>>

\* a next() that steps past the last track
QueueNext_NoWrap(q) ==
  IF q.tracks = <<>> THEN q
  ELSE [q EXCEPT !.current_index =
          IF q.current_index # <<>> THEN <<q.current_index[1] + 1>> ELSE <<0>>]

\* Queue::next: the queue after the call
QueueNext(q) ==
  IF q.tracks = <<>> THEN q
  ELSE [q EXCEPT !.current_index =
          IF q.current_index # <<>> /\ q.current_index[1] + 1 < Len(q.tracks)
          THEN <<q.current_index[1] + 1>>
          ELSE <<0>>]

\* Queue::previous: the queue after the call
QueuePrevious(q) ==
  IF q.tracks = <<>> THEN q
  ELSE [q EXCEPT !.current_index =
          IF q.current_index # <<>> /\ q.current_index[1] > 0
          THEN <<q.current_index[1] - 1>>
          ELSE <<Len(q.tracks) - 1>>]

\* what next() and previous() return: None on an empty queue, else the
\* current track of the queue they leave
Returns(before, after) ==
  IF before.tracks = <<>> THEN <<>> ELSE CurrentTrack(after)

InitPlay ==
  /\ StoreIdle
  /\ ProviderIdle
  /\ WatcherIdle
  /\ TasksIdle
  /\ ExtractorIdle
  /\ SearchViewIdle
  /\ ManagerIdle
  /\ PoolIdle
  /\ PlayerIdle

\* AudioPlayer::load_queue(tracks)
LoadQueue(tracks) ==
  /\ queue' = QueueNew(tracks)
  /\ played' = [op |-> "load_queue", pre |-> queue.current_index,
                result |-> <<>>]
  /\ UNCHANGED <<svars, pvars, wvars, nvars, evars, qvars, mvars, lvars,
                 current_track>>

\* self.play(&track) with its result dropped (let _ =): current_track is
\* set when the backend plays the track and left alone when it fails
PlayOutcomes(result) ==
  IF result = <<>> THEN {current_track} ELSE {current_track, result}

\* AudioPlayer::next()
PlayerNext ==
  /\ queue' = QueueNext(queue)
  /\ played' = [op |-> "next", pre |-> queue.current_index,
                result |-> Returns(queue, QueueNext(queue))]
  /\ current_track' \in PlayOutcomes(Returns(queue, QueueNext(queue)))
  /\ UNCHANGED <<svars, pvars, wvars, nvars, evars, qvars, mvars, lvars>>

\* AudioPlayer::previous()
PlayerPrevious ==
  /\ queue' = QueuePrevious(queue)
  /\ played' = [op |-> "previous", pre |-> queue.current_index,
                result |-> Returns(queue, QueuePrevious(queue))]
  /\ current_track' \in PlayOutcomes(Returns(queue, QueuePrevious(queue)))
  /\ UNCHANGED <<svars, pvars, wvars, nvars, evars, qvars, mvars, lvars>>

NextPlay ==
  \/ \E tracks \in Queues : LoadQueue(tracks)
  \/ PlayerNext
  \/ PlayerPrevious

SpecPlay == InitPlay /\ [][NextPlay]_vars

(***************************************************************************)
(* The extractor's tag resolution (SpecTags).                              *)
(***************************************************************************)
TagFields ==
  {"title", "artist", "album", "track_number", "disc_number", "release_year",
   "genre"}

\* the standard key that sets a field
StdKeyOf(F) ==
  CASE F = "title" -> "TrackTitle"
    [] F = "artist" -> "Artist"
    [] F = "album" -> "Album"
    [] F = "track_number" -> "TrackNumber"
    [] F = "disc_number" -> "DiscNumber"
    [] F = "release_year" -> "Date"
    [] F = "genre" -> "Genre"

\* the raw tag name that sets a field
RawNameOf(F) ==
  CASE F = "title" -> <<"T","I","T","L","E">>
    [] F = "artist" -> <<"A","R","T","I","S","T">>
    [] F = "album" -> <<"A","L","B","U","M">>
    [] F = "track_number" -> <<"T","R","A","C","K","N","U","M","B","E","R">>
    [] F = "disc_number" -> <<"D","I","S","C","N","U","M","B","E","R">>
    [] F = "release_year" -> <<"D","A","T","E">>
    [] F = "genre" -> <<"G","E","N","R","E">>

\* what a tag's value is as the value of a field
FieldValue(F, value) ==
  CASE F \in {"title", "artist", "album"} -> value
    [] F \in {"track_number", "disc_number"} -> ParseU32(value)
    [] F = "release_year" -> ParseYear(value)
    [] F = "genre" -> <<value>>

IsStdFor(t, F) == t.std_key = StdKeyOf(F)

IsRawFor(t, F) ==
  /\ t.std_key \notin {StdKeyOf(G) : G \in TagFields}
  /\ Upper(t.key) = RawNameOf(F)

\* a field with a standardized tag holds the value of one of them
StandardKeysWin ==
  \A F \in TagFields :
    (\E i \in 1..Len(tags) : IsStdFor(tags[i], F))
      => fields[F] \in {FieldValue(F, tags[i].value) :
                          i \in {j \in 1..Len(tags) : IsStdFor(tags[j], F)}}

\* a raw-named tag that follows a tag of its field leaves the field alone
FirstWriterWins ==
  \A F \in TagFields :
    ( /\ IsRawFor(tags[taken + 1], F)
      /\ \E i \in 1..taken : IsStdFor(tags[i], F) \/ IsRawFor(tags[i], F) )
    => fields'[F] = fields[F]

\* C31: when all tags of a file are read, every field that has a standardized
\* tag holds a standardized tag's value, wherever the raw-named tags stand in
\* the sequence; and a raw-named tag never changes a field that an earlier
\* tag of the sequence has set.
C31_StandardKeysWinFirstRawWins ==
  [][ taken' = taken + 1
        => /\ FirstWriterWins
           /\ taken' = Len(tags) => StandardKeysWin' ]_vars

(***************************************************************************)
(* The search view's properties (SpecView).                                *)
(***************************************************************************)
\* no search task and no render task is left to run
ViewQuiet == tasks = {} /\ renders = <<>>

\* C32: update_search_results is never called with the results of a version
\* older than search_version at the call, and once the tasks have run, an
\* empty search entry does not show the result page of an earlier query.
C32_OnlyLatestQueryRendered ==
  /\ rendered # <<>> => rendered[1].version >= rendered[1].current
  /\ (ViewQuiet /\ entry_text = <<>>) => page # "search_results_scroll"

(***************************************************************************)
(* The service manager's properties (SpecMgr).                             *)
(***************************************************************************)
\* C33: get_all_artists returns no two artists of the same name, get_all_albums
\* no two albums of the same title and artist, and search_all no artist
\* twice, whatever the providers return and in whatever order.
C33_NoDuplicates ==
  /\ reply.kind \in {"get_all_artists", "manager_search_all"} =>
       \A i, j \in 1..Len(reply.artists) :
         reply.artists[i].name = reply.artists[j].name => i = j
  /\ reply.kind = "get_all_albums" =>
       \A i, j \in 1..Len(reply.albums) :
         ( /\ reply.albums[i].title = reply.albums[j].title
           /\ reply.albums[i].artist = reply.albums[j].artist ) => i = j

\* the providers whose call `what` returned Ok
Succeeded(what) == {n \in DOMAIN providers : providers[n][what].ok}

\* C37: a provider's Err does not fail the manager's call: the call returns
\* Ok with everything the providers that succeeded returned, and every track
\* of get_all_tracks and search_all is an item of a provider that succeeded,
\* carrying that provider's name.
C37_ProviderFailuresIsolated ==
  /\ reply.kind \in {"get_all_tracks", "get_all_artists", "get_all_albums",
                     "manager_search_all"} => reply.ok
  /\ reply.kind = "get_all_tracks" =>
       /\ \A n \in Succeeded("tracks") :
            \A t \in Range(providers[n].tracks.v) :
              PlayableItem(t, n) \in Range(reply.tracks)
       /\ \A item \in Range(reply.tracks) :
            /\ item.provider \in Succeeded("tracks")
            /\ item.track \in Range(providers[item.provider].tracks.v)
  /\ reply.kind = "get_all_artists" =>
       \A n \in Succeeded("artists") :
         \A a \in Range(providers[n].artists.v) :
           \E b \in Range(reply.artists) : b.name = a.name
  /\ reply.kind = "get_all_albums" =>
       \A n \in Succeeded("albums") :
         \A a \in Range(providers[n].albums.v) :
           \E b \in Range(reply.albums) :
             b.title = a.title /\ b.artist = a.artist
  /\ reply.kind = "manager_search_all" =>
       /\ \A n \in Succeeded("search") :
            /\ Range(providers[n].search.v.tracks) \subseteq Range(reply.tracks)
            /\ Range(providers[n].search.v.albums) \subseteq Range(reply.albums)
            /\ Range(providers[n].search.v.artists) \subseteq Range(reply.artists)
       /\ \A item \in Range(reply.tracks) :
            /\ item.provider \in Succeeded("search")
            /\ item \in Range(providers[item.provider].search.v.tracks)

\* get_all_tracks over a provider that failed and one that returned a track
C37_Witness ==
  /\ reply.kind = "get_all_tracks"
  /\ DOMAIN providers = ProviderNames
  /\ ~providers["local"].tracks.ok
  /\ providers["remote"].tracks = OkRes(<<TrackA>>)
  /\ reply.ok
  /\ reply.tracks = <<PlayableItem(TrackA, "remote")>>

(***************************************************************************)
(* Referential integrity of the catalog (Spec).                            *)
(***************************************************************************)
\* every track row has its album row and its artist row
Referenced(d) ==
  \A r \in d.tracks :
    /\ \E a \in d.albums : a.title = r.album /\ a.artist = r.artist
    /\ \E a \in d.artists : a.name = r.artist

\* C34: a successful insert_track, batch_insert_tracks or
\* remove_track_by_path on a catalog in which every track row has its album
\* row (same title and artist) and its artist row (same name) leaves such a
\* catalog; the empty catalog is one.
C34_TracksHaveAlbumAndArtist ==
  [][ ( /\ nops' = nops + 1
        /\ last'.op \in {"insert_track", "batch_insert_tracks",
                         "remove_track_by_path"}
        /\ last'.ok
        /\ Referenced(db) )
      => Referenced(db') ]_vars

(***************************************************************************)
(* Nested transactions of one call (Spec).                                 *)
(***************************************************************************)
\* C35: batch_insert_tracks and cleanup_database, run alone, return Ok: the
\* transactions their inner calls open on a second connection are not turned
\* away by the transaction the call itself holds open.
C35_InnerTransactionSucceeds ==
  last.op \in {"batch_insert_tracks", "cleanup_database"} => last.ok

(***************************************************************************)
(* The connection pool's properties (SpecPool).                            *)
(***************************************************************************)
\* every pooled connection is held by an operation that waits for another
PoolExhaustedByWaiters ==
  /\ InUse = PoolSize
  /\ \A t \in Threads : pool[t].held > 0 => pool[t].at = "get"

\* C36: in no reachable state are all pooled connections held by operations
\* that each wait for another connection.
C36_PoolNeverDeadlocks == ~PoolExhaustedByWaiters

(***************************************************************************)
(* The playback queue's properties (SpecPlay).                             *)
(***************************************************************************)
\* C38: current_index is None or below the number of tracks, so that
\* current_track never indexes out of bounds; on a non-empty queue next()
\* goes to the following track, from the last one and from None to the
\* first, and previous() to the track before, from the first one and from
\* None to the last; each returns the track it went to; on an empty queue
\* both return None and leave current_index as it was.
C38_QueueIndexInBounds ==
  LET n == Len(queue.tracks)
      idx == queue.current_index
      pre == played.pre
  IN /\ idx = <<>> \/ (idx[1] >= 0 /\ idx[1] < n)
     /\ CurrentTrack(queue) # <<Panicked>>
     /\ played.op \in {"next", "previous"} =>
          IF n = 0
          THEN played.result = <<>> /\ idx = pre
          ELSE /\ played.result = CurrentTrack(queue)
               /\ played.result # <<>>
               /\ played.op = "next" =>
                    idx = IF pre = <<>> \/ pre[1] = n - 1
                          THEN <<0>> ELSE <<pre[1] + 1>>
               /\ played.op = "previous" =>
                    idx = IF pre = <<>> \/ pre[1] = 0
                          THEN <<n - 1>> ELSE <<pre[1] - 1>>

\* next() on the last of three tracks has wrapped to the first
C38_Witness ==
  /\ Len(queue.tracks) = MaxQueue
  /\ played.op = "next"
  /\ played.pre = <<MaxQueue - 1>>
  /\ queue.current_index = <<0>>
  /\ played.result = <<queue.tracks[1].track>>

=============================================================================
